---- MODULE Spec2Model ----
(***************************************************************************)
(* A model of bedrock-chat: the model catalog, the generation config, the  *)
(* stream decoder (utils/streaming.py), the backoff computation            *)
(* (utils/retry.py) and the two chat commands (cli/chat.py).               *)
(*                                                                         *)
(* Conventions.  A Python str is a sequence of one-character strings, so   *)
(* '' is << >> and + is \o.  A Python dict is a function whose DOMAIN is   *)
(* the set of its keys, so `k in d` is k \in DOMAIN d and {} is << >>.     *)
(* A float that the code only compares or scales is kept as an integer in  *)
(* a fixed unit: temperature and top_p in tenths, delays in seconds before *)
(* the jitter and in hundredths of a second after it.                      *)
(***************************************************************************)
EXTENDS Integers, Sequences, FiniteSets, TLC

VARIABLES
    pc,                 \* where the running command is: idle, invoke, drain, chat_invoke, done
    mode,               \* "none", "chat" (chat_command) or "stream" (stream_chat_command)
    model_name,         \* the model_name argument
    max_tokens,         \* the max_tokens argument
    temperature,        \* the temperature argument, in tenths
    top_p,              \* the top_p the ModelConfig is constructed with, in tenths
    top_k,              \* the top_k the ModelConfig is constructed with
    system_prompt,      \* the system_prompt argument ('' stands for None too: the code
                        \* only tests its truth value)
    chat_history,       \* the chat_history argument: [present, messages]
    history0,           \* chat_history as it was when the command was called
    model_config,       \* ModelConfig built by from_model_name, or NoConfig
    stream_config,      \* StreamConfig built by stream_chat_command
    formatted_prompt,   \* what format_prompt returned: [kind, value]
    request,            \* the request body the command built: a dict, {} before that
    attempt,            \* loop variable of `for attempt in range(retry_attempts)`
    complete_response,  \* the accumulator of stream_chat_command
    chunk_count,        \* process_stream_chunks' counter of consumed events
    accumulated_text,   \* process_stream_chunks' own text buffer
    stdout,             \* the sink: every fragment printed by `print(chunk, end="")`
    observer,           \* the messages handed to print_fn
    sleeps,             \* one record per handle_rate_limit call: attempt, delay, sleep
    transport_log,      \* one record per transport invocation: its outcome and frames
    response_body,      \* the bodies invoke_model returned to chat_command (none or one)
    result,             \* what the command returned or raised
    registry,           \* the module's MODEL_REGISTRY dict, which any code could write to
    calls,              \* the calls made to the library outside a command, each with
                        \* its arguments and what it returned or raised
    print_fn,           \* the print_fn argument of stream_chat_command: TRUE for a
                        \* function, FALSE for None
    parked              \* the arguments and locals of a second call of
                        \* stream_chat_command, in another thread, while it does not run

vars == << pc, mode, model_name, max_tokens, temperature, top_p, top_k, system_prompt,
           chat_history, history0, model_config, stream_config, request, formatted_prompt,
           attempt, complete_response, chunk_count, accumulated_text, stdout, observer,
           sleeps, transport_log, response_body, result, registry, calls,
           print_fn, parked >>

-----------------------------------------------------------------------------
(* Python values *)

\* None where a str is expected (api_version, an error message)
None == "None"

\* An Optional[list] (stop_sequences): None, or a list with its items
NoneList == [is_none |-> TRUE, items |-> << >>]

List(items) == [is_none |-> FALSE, items |-> items]

EmptyDict == << >>

EmptyText == << >>

Has(d, k) == k \in DOMAIN d

\* dict.get(k, default)
Get(d, k, default) == IF k \in DOMAIN d THEN d[k] ELSE default

\* str.startswith, on strings cut into tokens at the ends of the tested prefixes
startswith(s, prefix) ==
    /\ Len(prefix) <= Len(s)
    /\ SubSeq(s, 1, Len(prefix)) = prefix

\* `x or []` read as plain x: None stays None
or_empty_list_as_is(x) == x

\* `x or []` for an Optional[list]: [] for None and for []
or_empty_list(x) == IF x.is_none \/ x.items = << >> THEN List(<< >>) ELSE x

Min(a, b) == IF a <= b THEN a ELSE b

Max(a, b) == IF a >= b THEN a ELSE b

RECURSIVE Pow2(_)
Pow2(n) == IF n <= 0 THEN 1 ELSE 2 * Pow2(n - 1)

\* {**d1, **d2}: the keys of both, d2's value where both have the key
Merge(d1, d2) ==
    [k \in DOMAIN d1 \cup DOMAIN d2 |-> IF k \in DOMAIN d2 THEN d2[k] ELSE d1[k]]

\* sep.join over a sequence of strings
RECURSIVE Join(_, _)
Join(sep, ss) ==
    IF ss = << >> THEN << >>
    ELSE IF Len(ss) = 1 THEN Head(ss)
    ELSE Head(ss) \o sep \o Join(sep, Tail(ss))

\* "".join over a sequence of strings
RECURSIVE Flatten(_)
Flatten(ss) == IF ss = << >> THEN << >> ELSE Head(ss) \o Flatten(Tail(ss))

-----------------------------------------------------------------------------
(* models/model_registry.py *)

ModelInfo(model_id, api_version, context_window, supports_streaming) ==
    [model_id |-> model_id, api_version |-> api_version,
     context_window |-> context_window, supports_streaming |-> supports_streaming]

MODEL_REGISTRY ==
    [n \in {"claude-sonnet", "claude-haiku", "titan-express", "titan-lite",
            "llama-70b", "llama-8b", "mistral-7b", "mistral-large", "mistral-8x7b"} |->
        CASE n = "claude-sonnet" ->
               ModelInfo(<<"anthropic.", "claude-3", "-sonnet-20240229-v1:0">>,
                         "bedrock-2023-05-31", 200000, TRUE)
          [] n = "claude-haiku" ->
               ModelInfo(<<"anthropic.", "claude-3", "-haiku-20240307-v1:0">>,
                         "bedrock-2023-05-31", 200000, TRUE)
          [] n = "titan-express" ->
               ModelInfo(<<"amazon.", "titan-text-express-v1">>, None, 8000, TRUE)
          [] n = "titan-lite" ->
               ModelInfo(<<"amazon.", "titan-text-lite-v1">>, None, 4000, TRUE)
          [] n = "llama-70b" ->
               ModelInfo(<<"meta.", "llama3-70b-instruct-v1:0">>, None, 32000, TRUE)
          [] n = "llama-8b" ->
               ModelInfo(<<"meta.", "llama3-8b-instruct-v1:0">>, None, 16000, TRUE)
          [] n = "mistral-7b" ->
               ModelInfo(<<"mistral.", "mistral-7b-instruct-v0:2">>, None, 8000, TRUE)
          [] n = "mistral-large" ->
               ModelInfo(<<"mistral.", "mistral-large-2402-v1:0">>, None, 32000, TRUE)
          [] OTHER ->
               ModelInfo(<<"mistral.", "mixtral-8x7b-instruct-v0:1">>, None, 32000, TRUE)]

\* The None that MODEL_REGISTRY.get returns for a missing key
NoModelInfo == ModelInfo(<< >>, None, 0, FALSE)

\* The registry after MODEL_REGISTRY.pop(model_name, None): the entry is taken out
registry_after_pop(reg, name) == [n \in DOMAIN reg \ {name} |-> reg[n]]

\* The registry after MODEL_REGISTRY.get(model_name): dict.get writes nothing, and no
\* other statement of the package names MODEL_REGISTRY outside model_registry.py
registry_after_get(reg, name) == reg

\* get_model_info falling back on a default model for an unknown name
get_model_info_with_fallback(name) ==
    IF name \in DOMAIN registry THEN registry[name]
    ELSE registry["claude-sonnet"]

\* MODEL_REGISTRY.get(model_name): the ModelInfo, or None
get_model_info(name) ==
    IF name \in DOMAIN registry THEN registry[name] ELSE NoModelInfo

-----------------------------------------------------------------------------
(* models/model_config.py *)

DefaultTemperature == 7

DefaultMaxTokens == 100

DefaultTopP == 10

DefaultTopK == 250

\* __post_init__ with strict comparisons: the ends 0 and 1 are refused
ModelConfig_post_init_strict(c) ==
    IF ~(0 < c.temperature /\ c.temperature < 10) THEN "Temperature must be between 0 and 1"
    ELSE IF ~(0 < c.top_p /\ c.top_p < 10) THEN "Top-p must be between 0 and 1"
    ELSE IF c.top_k < 0 THEN "Top-k must be non-negative"
    ELSE IF c.max_tokens < 1 THEN "Max tokens must be positive"
    ELSE None

\* __post_init__ with no validation at all
ModelConfig_post_init_unchecked(c) == None

\* ModelConfig.__post_init__: the error it raises, or None
ModelConfig_post_init(c) ==
    IF ~(0 <= c.temperature /\ c.temperature <= 10) THEN "Temperature must be between 0 and 1"
    ELSE IF ~(0 <= c.top_p /\ c.top_p <= 10) THEN "Top-p must be between 0 and 1"
    ELSE IF c.top_k < 0 THEN "Top-k must be non-negative"
    ELSE IF c.max_tokens < 1 THEN "Max tokens must be positive"
    ELSE None

\* No ModelConfig instance (construction raised, or none was built yet)
NoConfig ==
    [model_id |-> << >>, temperature |-> 0, max_tokens |-> 0, top_p |-> 0, top_k |-> 0,
     stop_sequences |-> NoneList, api_version |-> None]

\* from_model_name without the test of max_tokens against the context window
from_model_name_any_window(name, tokens, temp) ==
    LET model_info == get_model_info(name) IN
    IF model_info = NoModelInfo
    THEN [ok |-> FALSE, error |-> "ValueError", msg |-> "Unknown model", config |-> NoConfig]
    ELSE LET c == [model_id |-> model_info.model_id,
                   temperature |-> temp,
                   max_tokens |-> tokens,
                   top_p |-> DefaultTopP,
                   top_k |-> DefaultTopK,
                   stop_sequences |-> NoneList,
                   api_version |-> model_info.api_version]
         IN IF ModelConfig_post_init(c) # None
            THEN [ok |-> FALSE, error |-> "ValueError",
                  msg |-> ModelConfig_post_init(c), config |-> NoConfig]
            ELSE [ok |-> TRUE, error |-> None, msg |-> None, config |-> c]

\* from_model_name taking the temperature of the last command, once one has run, in
\* place of its argument
from_model_name_sticky(name, tokens, temp) ==
    LET model_info == get_model_info(name)
        used == IF mode \in {"chat", "stream"} THEN temperature ELSE temp
    IN
    IF model_info = NoModelInfo
    THEN [ok |-> FALSE, error |-> "ValueError", msg |-> "Unknown model", config |-> NoConfig]
    ELSE IF tokens > model_info.context_window
    THEN [ok |-> FALSE, error |-> "ValueError",
          msg |-> "Max tokens exceeds model's context window", config |-> NoConfig]
    ELSE LET c == [model_id |-> model_info.model_id,
                   temperature |-> used,
                   max_tokens |-> tokens,
                   top_p |-> DefaultTopP,
                   top_k |-> DefaultTopK,
                   stop_sequences |-> NoneList,
                   api_version |-> model_info.api_version]
         IN IF ModelConfig_post_init(c) # None
            THEN [ok |-> FALSE, error |-> "ValueError",
                  msg |-> ModelConfig_post_init(c), config |-> NoConfig]
            ELSE [ok |-> TRUE, error |-> None, msg |-> None, config |-> c]

\* ModelConfig.from_model_name(model_name, max_tokens=..., temperature=...), as both
\* commands call it: [ok, error, msg, config]
from_model_name(name, tokens, temp) ==
    LET model_info == get_model_info(name) IN
    IF model_info = NoModelInfo
    THEN [ok |-> FALSE, error |-> "ValueError", msg |-> "Unknown model", config |-> NoConfig]
    ELSE IF tokens > model_info.context_window
    THEN [ok |-> FALSE, error |-> "ValueError",
          msg |-> "Max tokens exceeds model's context window", config |-> NoConfig]
    ELSE LET c == [model_id |-> model_info.model_id,
                   temperature |-> temp,
                   max_tokens |-> tokens,
                   top_p |-> DefaultTopP,
                   top_k |-> DefaultTopK,
                   stop_sequences |-> NoneList,
                   api_version |-> model_info.api_version]
         IN IF ModelConfig_post_init(c) # None
            THEN [ok |-> FALSE, error |-> "ValueError",
                  msg |-> ModelConfig_post_init(c), config |-> NoConfig]
            ELSE [ok |-> TRUE, error |-> None, msg |-> None, config |-> c]

\* from_model_name building the instance, and so validating the ranges, before it
\* tests max_tokens against the context window
from_model_name_kwargs_range_first(name, kwargs) ==
    LET model_info == get_model_info(name)
        c == [model_id |-> model_info.model_id,
              temperature |-> Get(kwargs, "temperature", DefaultTemperature),
              max_tokens |-> Get(kwargs, "max_tokens", DefaultMaxTokens),
              top_p |-> Get(kwargs, "top_p", DefaultTopP),
              top_k |-> Get(kwargs, "top_k", DefaultTopK),
              stop_sequences |-> NoneList,
              api_version |-> model_info.api_version]
    IN
    IF model_info = NoModelInfo
    THEN [ok |-> FALSE, error |-> "ValueError", msg |-> "Unknown model", config |-> NoConfig]
    ELSE IF ModelConfig_post_init(c) # None
    THEN [ok |-> FALSE, error |-> "ValueError",
          msg |-> ModelConfig_post_init(c), config |-> NoConfig]
    ELSE IF c.max_tokens > model_info.context_window
    THEN [ok |-> FALSE, error |-> "ValueError",
          msg |-> "Max tokens exceeds model's context window", config |-> NoConfig]
    ELSE [ok |-> TRUE, error |-> None, msg |-> None, config |-> c]

\* ModelConfig.from_model_name(model_name, **kwargs) with any of max_tokens,
\* temperature, top_p, top_k among the keyword arguments: [ok, error, msg, config]
from_model_name_kwargs(name, kwargs) ==
    LET model_info == get_model_info(name) IN
    IF model_info = NoModelInfo
    THEN [ok |-> FALSE, error |-> "ValueError", msg |-> "Unknown model", config |-> NoConfig]
    ELSE IF Get(kwargs, "max_tokens", DefaultMaxTokens) > model_info.context_window
    THEN [ok |-> FALSE, error |-> "ValueError",
          msg |-> "Max tokens exceeds model's context window", config |-> NoConfig]
    ELSE LET c == [model_id |-> model_info.model_id,
                   temperature |-> Get(kwargs, "temperature", DefaultTemperature),
                   max_tokens |-> Get(kwargs, "max_tokens", DefaultMaxTokens),
                   top_p |-> Get(kwargs, "top_p", DefaultTopP),
                   top_k |-> Get(kwargs, "top_k", DefaultTopK),
                   stop_sequences |-> NoneList,
                   api_version |-> model_info.api_version]
         IN IF ModelConfig_post_init(c) # None
            THEN [ok |-> FALSE, error |-> "ValueError",
                  msg |-> ModelConfig_post_init(c), config |-> NoConfig]
            ELSE [ok |-> TRUE, error |-> None, msg |-> None, config |-> c]

DefaultApiVersion == "bedrock-2023-05-31"

\* to_request_body with the 'anthropic.' test placed before the 'anthropic.claude-3'
\* one
to_request_body_prefix_order(c) ==
    LET stop == or_empty_list(c.stop_sequences) IN
    IF startswith(c.model_id, << "anthropic." >>)
    THEN [raised |-> FALSE,
          body |-> [max_tokens |-> c.max_tokens,
                    temperature |-> c.temperature,
                    top_k |-> c.top_k,
                    top_p |-> c.top_p,
                    stop_sequences |-> stop]]
    ELSE IF startswith(c.model_id, << "anthropic.", "claude-3" >>)
    THEN [raised |-> FALSE,
          body |-> [anthropic_version |->
                        IF c.api_version # None THEN c.api_version ELSE DefaultApiVersion,
                    max_tokens |-> c.max_tokens,
                    temperature |-> c.temperature,
                    top_k |-> c.top_k,
                    top_p |-> c.top_p,
                    stop_sequences |-> stop]]
    ELSE IF startswith(c.model_id, << "amazon." >>)
    THEN [raised |-> FALSE,
          body |-> [inputText |-> EmptyText,
                    textGenerationConfig |-> [maxTokenCount |-> c.max_tokens,
                                              temperature |-> c.temperature,
                                              topP |-> c.top_p,
                                              stopSequences |-> stop]]]
    ELSE IF startswith(c.model_id, << "meta." >>)
    THEN [raised |-> FALSE,
          body |-> [max_gen_len |-> c.max_tokens,
                    temperature |-> c.temperature,
                    top_p |-> c.top_p]]
    ELSE IF startswith(c.model_id, << "mistral." >>)
    THEN [raised |-> FALSE,
          body |-> [max_tokens |-> c.max_tokens,
                    temperature |-> c.temperature,
                    top_p |-> c.top_p,
                    stop |-> stop]]
    ELSE [raised |-> TRUE, body |-> EmptyDict]

\* to_request_body with a Llama body that carries top_k too
to_request_body_llama_top_k(c) ==
    LET stop == or_empty_list(c.stop_sequences) IN
    IF startswith(c.model_id, << "anthropic.", "claude-3" >>)
    THEN [raised |-> FALSE,
          body |-> [anthropic_version |->
                        IF c.api_version # None THEN c.api_version ELSE DefaultApiVersion,
                    max_tokens |-> c.max_tokens,
                    temperature |-> c.temperature,
                    top_k |-> c.top_k,
                    top_p |-> c.top_p,
                    stop_sequences |-> stop]]
    ELSE IF startswith(c.model_id, << "anthropic." >>)
    THEN [raised |-> FALSE,
          body |-> [max_tokens |-> c.max_tokens,
                    temperature |-> c.temperature,
                    top_k |-> c.top_k,
                    top_p |-> c.top_p,
                    stop_sequences |-> stop]]
    ELSE IF startswith(c.model_id, << "amazon." >>)
    THEN [raised |-> FALSE,
          body |-> [inputText |-> EmptyText,
                    textGenerationConfig |-> [maxTokenCount |-> c.max_tokens,
                                              temperature |-> c.temperature,
                                              topP |-> c.top_p,
                                              stopSequences |-> stop]]]
    ELSE IF startswith(c.model_id, << "meta." >>)
    THEN [raised |-> FALSE,
          body |-> [max_gen_len |-> c.max_tokens,
                    temperature |-> c.temperature,
                    top_k |-> c.top_k,
                    top_p |-> c.top_p]]
    ELSE IF startswith(c.model_id, << "mistral." >>)
    THEN [raised |-> FALSE,
          body |-> [max_tokens |-> c.max_tokens,
                    temperature |-> c.temperature,
                    top_p |-> c.top_p,
                    stop |-> stop]]
    ELSE [raised |-> TRUE, body |-> EmptyDict]

\* ModelConfig.to_request_body: [raised, body].  `x or default` takes the default for
\* None (and for '' and []); stop is `self.stop_sequences or []`.
to_request_body(c) ==
    LET stop == or_empty_list(c.stop_sequences) IN
    IF startswith(c.model_id, << "anthropic.", "claude-3" >>)
    THEN [raised |-> FALSE,
          body |-> [anthropic_version |->
                        IF c.api_version # None THEN c.api_version ELSE DefaultApiVersion,
                    max_tokens |-> c.max_tokens,
                    temperature |-> c.temperature,
                    top_k |-> c.top_k,
                    top_p |-> c.top_p,
                    stop_sequences |-> stop]]
    ELSE IF startswith(c.model_id, << "anthropic." >>)
    THEN [raised |-> FALSE,
          body |-> [max_tokens |-> c.max_tokens,
                    temperature |-> c.temperature,
                    top_k |-> c.top_k,
                    top_p |-> c.top_p,
                    stop_sequences |-> stop]]
    ELSE IF startswith(c.model_id, << "amazon." >>)
    THEN [raised |-> FALSE,
          body |-> [inputText |-> EmptyText,
                    textGenerationConfig |-> [maxTokenCount |-> c.max_tokens,
                                              temperature |-> c.temperature,
                                              topP |-> c.top_p,
                                              stopSequences |-> stop]]]
    ELSE IF startswith(c.model_id, << "meta." >>)
    THEN [raised |-> FALSE,
          body |-> [max_gen_len |-> c.max_tokens,
                    temperature |-> c.temperature,
                    top_p |-> c.top_p]]
    ELSE IF startswith(c.model_id, << "mistral." >>)
    THEN [raised |-> FALSE,
          body |-> [max_tokens |-> c.max_tokens,
                    temperature |-> c.temperature,
                    top_p |-> c.top_p,
                    stop |-> stop]]
    ELSE [raised |-> TRUE, body |-> EmptyDict]

DefaultChunkSize == 1024

DefaultRetryAttempts == 5

DefaultBaseDelay == 2

DefaultMaxDelay == 30

DefaultThrottleCooldown == 10

\* StreamConfig(): the dataclass defaults
StreamConfig ==
    [chunk_size |-> DefaultChunkSize, retry_attempts |-> DefaultRetryAttempts,
     base_delay |-> DefaultBaseDelay, max_delay |-> DefaultMaxDelay,
     throttle_cooldown |-> DefaultThrottleCooldown]

\* __post_init__ without the test of max_delay against base_delay
StreamConfig_post_init_no_order(c) ==
    IF c.chunk_size < 1 THEN "Chunk size must be positive"
    ELSE IF c.retry_attempts < 0 THEN "Retry attempts must be non-negative"
    ELSE IF c.base_delay <= 0 THEN "Base delay must be positive"
    ELSE IF c.throttle_cooldown < 0 THEN "Throttle cooldown must be non-negative"
    ELSE None

\* StreamConfig.__post_init__: the error it raises, or None
StreamConfig_post_init(c) ==
    IF c.chunk_size < 1 THEN "Chunk size must be positive"
    ELSE IF c.retry_attempts < 0 THEN "Retry attempts must be non-negative"
    ELSE IF c.base_delay <= 0 THEN "Base delay must be positive"
    ELSE IF c.max_delay < c.base_delay THEN "Max delay must be greater than base delay"
    ELSE IF c.throttle_cooldown < 0 THEN "Throttle cooldown must be non-negative"
    ELSE None

\* The fields the dataclass __init__ sets for StreamConfig(**kwargs): the argument, or
\* the default
StreamConfig_init(kwargs) ==
    [chunk_size |-> Get(kwargs, "chunk_size", DefaultChunkSize),
     retry_attempts |-> Get(kwargs, "retry_attempts", DefaultRetryAttempts),
     base_delay |-> Get(kwargs, "base_delay", DefaultBaseDelay),
     max_delay |-> Get(kwargs, "max_delay", DefaultMaxDelay),
     throttle_cooldown |-> Get(kwargs, "throttle_cooldown", DefaultThrottleCooldown)]

-----------------------------------------------------------------------------
(* cli/chat.py: ChatHistory and format_prompt *)

Message(role, content) == [role |-> role, content |-> content]

\* chat_history=None
NoHistory == [present |-> FALSE, messages |-> << >>]

\* add_message as `self.messages = [{...}]`: the earlier messages are lost
add_message_replacing(messages, role, content) == << Message(role, content) >>

\* ChatHistory.add_message: self.messages.append({...})
add_message(messages, role, content) == Append(messages, Message(role, content))

DefaultMaxMessages == 10

\* get_context as self.messages[:max_messages]: the first messages, not the last
get_context_oldest(messages, max_messages) ==
    SubSeq(messages, 1, Min(Max(max_messages, 0), Len(messages)))

\* ChatHistory.get_context: self.messages[-max_messages:], a new list.  Python reads
\* [-0:] as [0:], the whole list, and [-n:] with n < 0 as [|n|:].
get_context(messages, max_messages) ==
    LET len == Len(messages)
        start == IF max_messages > 0 THEN Max(len - max_messages, 0)
                 ELSE Min(0 - max_messages, len)
    IN SubSeq(messages, start + 1, len)

\* format_prompt on `messages = self.messages`, the history's own list: insert and
\* append then write into the history
messages_after_format_prompt_aliased(prompt, sys, history) ==
    IF history.present /\ history.messages # << >>
    THEN (IF sys # EmptyText THEN << Message("system", sys) >> ELSE << >>)
         \o history.messages \o << Message("user", prompt) >>
    ELSE history.messages

\* The history's list after format_prompt: get_context returns the slice
\* self.messages[-10:], a new list, and insert(0, ...) and append(...) (chat.py 47-48)
\* write into that list, so self.messages is as it was
messages_after_format_prompt(prompt, sys, history) == history.messages

\* format_prompt with the system message appended after the history instead of
\* inserted at index 0
format_prompt_system_after(prompt, sys, history) ==
    IF history.present /\ history.messages # << >>
    THEN LET messages == get_context(history.messages, DefaultMaxMessages)
             with_system == IF sys # EmptyText
                            THEN messages \o << Message("system", sys) >>
                            ELSE messages
         IN [kind |-> "list", value |-> Append(with_system, Message("user", prompt))]
    ELSE IF sys # EmptyText
    THEN [kind |-> "list", value |-> << Message("system", sys), Message("user", prompt) >>]
    ELSE [kind |-> "str", value |-> prompt]

\* format_prompt: a str or a list of messages.  The list is built on the copy that
\* get_context returns, so chat_history.messages itself is left as it is.
format_prompt(prompt, sys, history) ==
    IF history.present /\ history.messages # << >>
    THEN LET messages == get_context(history.messages, DefaultMaxMessages)
             with_system == IF sys # EmptyText
                            THEN << Message("system", sys) >> \o messages
                            ELSE messages
         IN [kind |-> "list", value |-> Append(with_system, Message("user", prompt))]
    ELSE IF sys # EmptyText
    THEN [kind |-> "list", value |-> << Message("system", sys), Message("user", prompt) >>]
    ELSE [kind |-> "str", value |-> prompt]

\* "\n".join(msg["content"] for msg in formatted_prompt) for a list, the str itself
\* otherwise (chat.py 130-132, 149-151, 256-258, 275-277)
final_prompt(fp) ==
    IF fp.kind = "list"
    THEN Join(<< "\n" >>, [i \in 1..Len(fp.value) |-> fp.value[i].content])
    ELSE fp.value

\* The prompt of a Llama request (chat.py 138-141, 264-267)
inst_prompt(prompt, sys) ==
    IF sys # EmptyText
    THEN << "[INST] " >> \o sys \o << "\n\n" >> \o prompt \o << " [/INST]" >>
    ELSE << "[INST] " >> \o prompt \o << " [/INST]" >>

\* request_body without `body["inputText"] = final_prompt`: the placeholder stays
request_body_placeholder_kept(model_id, c, fp, prompt, sys) ==
    LET params == to_request_body(c) IN
    IF params.raised THEN params
    ELSE IF startswith(model_id, << "anthropic.", "claude-3" >>)
    THEN [raised |-> FALSE,
          body |-> Merge([messages |-> IF fp.kind = "list" THEN fp.value
                                       ELSE << Message("user", fp.value) >>],
                         params.body)]
    ELSE IF startswith(model_id, << "anthropic." >>)
    THEN [raised |-> FALSE, body |-> Merge([prompt |-> final_prompt(fp)], params.body)]
    ELSE IF startswith(model_id, << "amazon." >>)
    THEN [raised |-> FALSE, body |-> params.body]
    ELSE IF startswith(model_id, << "meta." >>)
    THEN [raised |-> FALSE, body |-> Merge([prompt |-> inst_prompt(prompt, sys)], params.body)]
    ELSE [raised |-> FALSE, body |-> Merge([prompt |-> final_prompt(fp)], params.body)]

\* The request body both commands build (chat.py 117-156, 243-282): [raised, body]
request_body(model_id, c, fp, prompt, sys) ==
    LET params == to_request_body(c) IN
    IF params.raised THEN params
    ELSE IF startswith(model_id, << "anthropic.", "claude-3" >>)
    THEN [raised |-> FALSE,
          body |-> Merge([messages |-> IF fp.kind = "list" THEN fp.value
                                       ELSE << Message("user", fp.value) >>],
                         params.body)]
    ELSE IF startswith(model_id, << "anthropic." >>)
    THEN [raised |-> FALSE, body |-> Merge([prompt |-> final_prompt(fp)], params.body)]
    ELSE IF startswith(model_id, << "amazon." >>)
    THEN [raised |-> FALSE, body |-> [params.body EXCEPT !.inputText = final_prompt(fp)]]
    ELSE IF startswith(model_id, << "meta." >>)
    THEN [raised |-> FALSE, body |-> Merge([prompt |-> inst_prompt(prompt, sys)], params.body)]
    ELSE [raised |-> FALSE, body |-> Merge([prompt |-> final_prompt(fp)], params.body)]

NoPrompt == [kind |-> "none", value |-> << >>]

-----------------------------------------------------------------------------
(* utils/streaming.py: process_stream_chunks, one event at a time *)

\* Whether decoding the chunk raises: delta.content[0] of an empty content list
chunk_raises(chunk) ==
    /\ ~Has(chunk, "completion")
    /\ Has(chunk, "type")
    /\ chunk["type"] = "message_delta"
    /\ Len(Get(Get(chunk, "delta", EmptyDict), "content", << EmptyDict >>)) = 0

\* chunk_texts with the `type` test moved below the tests of the other fields
chunk_texts_type_last(chunk) ==
    IF Has(chunk, "completion") THEN << chunk["completion"] >>
    ELSE IF Has(chunk, "outputText") THEN << chunk["outputText"] >>
    ELSE IF Has(chunk, "generation") THEN << chunk["generation"] >>
    ELSE IF Has(chunk, "text") THEN << chunk["text"] >>
    ELSE IF Has(chunk, "outputs")
    THEN [i \in 1..Len(chunk["outputs"]) |-> Get(chunk["outputs"][i], "text", EmptyText)]
    ELSE IF Has(chunk, "type") THEN
        IF chunk["type"] = "content_block_delta"
        THEN << Get(Get(chunk, "delta", EmptyDict), "text", EmptyText) >>
        ELSE IF chunk["type"] = "message_delta"
        THEN << Get(Get(Get(chunk, "delta", EmptyDict), "content", << EmptyDict >>)[1],
                    "text", EmptyText) >>
        ELSE << >>
    ELSE << >>

\* chunk_texts with a final `else: yield ''`: an unmatched chunk yields an empty text
chunk_texts_unmatched_empty(chunk) ==
    IF Has(chunk, "completion") THEN << chunk["completion"] >>
    ELSE IF Has(chunk, "type") THEN
        IF chunk["type"] = "content_block_delta"
        THEN << Get(Get(chunk, "delta", EmptyDict), "text", EmptyText) >>
        ELSE IF chunk["type"] = "message_delta"
        THEN << Get(Get(Get(chunk, "delta", EmptyDict), "content", << EmptyDict >>)[1],
                    "text", EmptyText) >>
        ELSE << >>
    ELSE IF Has(chunk, "outputText") THEN << chunk["outputText"] >>
    ELSE IF Has(chunk, "generation") THEN << chunk["generation"] >>
    ELSE IF Has(chunk, "text") THEN << chunk["text"] >>
    ELSE IF Has(chunk, "outputs")
    THEN [i \in 1..Len(chunk["outputs"]) |-> Get(chunk["outputs"][i], "text", EmptyText)]
    ELSE << EmptyText >>

\* chunk_texts with `for output in reversed(chunk['outputs'])`
chunk_texts_outputs_reversed(chunk) ==
    IF Has(chunk, "completion") THEN << chunk["completion"] >>
    ELSE IF Has(chunk, "type") THEN
        IF chunk["type"] = "content_block_delta"
        THEN << Get(Get(chunk, "delta", EmptyDict), "text", EmptyText) >>
        ELSE IF chunk["type"] = "message_delta"
        THEN << Get(Get(Get(chunk, "delta", EmptyDict), "content", << EmptyDict >>)[1],
                    "text", EmptyText) >>
        ELSE << >>
    ELSE IF Has(chunk, "outputText") THEN << chunk["outputText"] >>
    ELSE IF Has(chunk, "generation") THEN << chunk["generation"] >>
    ELSE IF Has(chunk, "text") THEN << chunk["text"] >>
    ELSE IF Has(chunk, "outputs")
    THEN [i \in 1..Len(chunk["outputs"]) |->
            Get(chunk["outputs"][Len(chunk["outputs"]) + 1 - i], "text", EmptyText)]
    ELSE << >>

\* The texts the generator yields for one chunk, in order (streaming.py 33-62)
chunk_texts(chunk) ==
    IF Has(chunk, "completion") THEN << chunk["completion"] >>
    ELSE IF Has(chunk, "type") THEN
        IF chunk["type"] = "content_block_delta"
        THEN << Get(Get(chunk, "delta", EmptyDict), "text", EmptyText) >>
        ELSE IF chunk["type"] = "message_delta"
        THEN << Get(Get(Get(chunk, "delta", EmptyDict), "content", << EmptyDict >>)[1],
                    "text", EmptyText) >>
        ELSE << >>
    ELSE IF Has(chunk, "outputText") THEN << chunk["outputText"] >>
    ELSE IF Has(chunk, "generation") THEN << chunk["generation"] >>
    ELSE IF Has(chunk, "text") THEN << chunk["text"] >>
    ELSE IF Has(chunk, "outputs")
    THEN [i \in 1..Len(chunk["outputs"]) |-> Get(chunk["outputs"][i], "text", EmptyText)]
    ELSE << >>

\* What the generator yields over a whole stream: the texts of its chunks in order, up
\* to the chunk whose decoding raises
RECURSIVE decode(_)
decode(frames) ==
    IF frames = << >> \/ chunk_raises(Head(frames)) THEN << >>
    ELSE chunk_texts(Head(frames)) \o decode(Tail(frames))

\* `if print_fn: print_fn(...)` (streaming.py 25-26, 64-68; retry.py 48-49): what the
\* observer has got after the messages, which a print_fn of None never sees
notify(fn, seen, news) == IF fn THEN seen \o news ELSE seen

ProgressEvery == 5

\* progress_messages counting from the first event: a message at 1, 6, 11, ...
progress_messages_from_first(count) ==
    IF (count - 1) % ProgressEvery = 0 THEN << [kind |-> "processed", chunks |-> count] >>
    ELSE << >>

\* print_fn(f"Processed chunks: {chunk_count}") every 5 consumed events
progress_messages(count) ==
    IF count % ProgressEvery = 0 THEN << [kind |-> "processed", chunks |-> count] >>
    ELSE << >>

-----------------------------------------------------------------------------
(* utils/retry.py *)

\* The delay without the cap: base_delay * (2 ** attempt)
backoff_delay_uncapped(attempt_no, base_delay, max_delay) == base_delay * Pow2(attempt_no)

\* min(base_delay * (2 ** attempt), max_delay): the delay before the jitter, in seconds
backoff_delay(attempt_no, base_delay, max_delay) ==
    Min(base_delay * Pow2(attempt_no), max_delay)

\* calculate_backoff_delay with jitter=True: delay *= (0.5 + random.random()).  The
\* factor is jitter_pct / 100 with 50 <= jitter_pct < 150; the result is in 1/100 s.
calculate_backoff_delay(attempt_no, base_delay, max_delay, jitter_pct) ==
    backoff_delay(attempt_no, base_delay, max_delay) * jitter_pct

\* handle_rate_limit with a second call of calculate_backoff_delay for the sleep: the
\* delay slept is not the delay told
handle_rate_limit_resampled(attempt_no, config, jitter_pct) ==
    LET delay == calculate_backoff_delay(attempt_no, config.base_delay, config.max_delay,
                                         jitter_pct)
        again == calculate_backoff_delay(attempt_no, config.base_delay, config.max_delay,
                                         100)
    IN [message |-> [kind |-> "rate_limited", delay |-> (delay + 5) \div 10,
                     retry |-> attempt_no, of |-> config.retry_attempts],
        sleep |-> [attempt |-> attempt_no,
                   base |-> backoff_delay(attempt_no, config.base_delay, config.max_delay),
                   delay |-> again]]

\* handle_rate_limit: the message to print_fn (the delay formatted with one decimal,
\* so in tenths of a second) and the time.sleep
handle_rate_limit(attempt_no, config, jitter_pct) ==
    LET delay == calculate_backoff_delay(attempt_no, config.base_delay, config.max_delay,
                                         jitter_pct)
    IN [message |-> [kind |-> "rate_limited", delay |-> (delay + 5) \div 10,
                     retry |-> attempt_no, of |-> config.retry_attempts],
        sleep |-> [attempt |-> attempt_no,
                   base |-> backoff_delay(attempt_no, config.base_delay, config.max_delay),
                   delay |-> delay]]

-----------------------------------------------------------------------------
(* cli/chat.py: the response parsing of chat_command (lines 163-176) *)

\* d.get(key, [{}])[0].get(field, ''): [raised, text]; [0] of an empty list raises
first_item_text(body, key, field) ==
    LET items == Get(body, key, << EmptyDict >>) IN
    IF Len(items) = 0 THEN [raised |-> TRUE, text |-> EmptyText]
    ELSE [raised |-> FALSE, text |-> Get(items[1], field, EmptyText)]

response_text(model_id, body) ==
    IF startswith(model_id, << "anthropic.", "claude-3" >>)
    THEN first_item_text(body, "content", "text")
    ELSE IF startswith(model_id, << "anthropic." >>)
    THEN [raised |-> FALSE, text |-> Get(body, "completion", EmptyText)]
    ELSE IF startswith(model_id, << "amazon." >>)
    THEN first_item_text(body, "results", "outputText")
    ELSE IF startswith(model_id, << "meta." >>)
    THEN [raised |-> FALSE, text |-> Get(body, "generation", EmptyText)]
    ELSE first_item_text(body, "outputs", "text")

-----------------------------------------------------------------------------
(* The inputs of a run: the caller's arguments and what the transport does *)

MaxFrames == 2

MaxDecoderFrames == 2

Prompt == << "P" >>

ModelNames == DOMAIN MODEL_REGISTRY \cup {"invalid-model"}

MaxTokensChoices == {0, DefaultMaxTokens, 250000}

TemperatureChoices == {DefaultTemperature, 15}

SystemPrompts == {EmptyText, << "S" >>}

\* The models and system prompts the streaming command is run with (the retry loop
\* and the decoder do not read them: they are the same for every model)
StreamModelNames == {"claude-sonnet", "invalid-model"}

StreamSystemPrompts == {EmptyText}

\* A conversation of n earlier turns
Conversation(n) ==
    [i \in 1..n |-> Message(IF i % 2 = 1 THEN "user" ELSE "assistant", << "h", ToString(i) >>)]

\* The caller's history: none, a new ChatHistory, or one holding two earlier turns
Histories ==
    {NoHistory} \cup {[present |-> TRUE, messages |-> Conversation(n)] : n \in {0, 2}}

\* random.random() in [0, 1): the jitter factor, in percent, is in 50..149
JitterChoices == {50, 149}

\* What a transport call, or the iteration of the stream it returned, raises: a
\* ClientError whose text holds "ThrottlingException", another ClientError, or an
\* exception that is no ClientError
Exceptions == {"ThrottlingException", "ClientError", "Exception"}

\* The frames of the streams the transport delivers to stream_chat_command: two that
\* yield a text and one whose decoding raises (SpecDecoder runs the decoder over the
\* other shapes)
StreamFrames ==
    { [completion |-> << "a" >>],
      [type |-> "content_block_delta", delta |-> [text |-> << "b" >>]],
      [type |-> "message_delta", delta |-> [content |-> << >>]] }

LowFields == {"completion", "outputText", "generation", "text", "outputs"}

FieldValue(f) ==
    CASE f = "completion" -> << "c" >>
      [] f = "outputText" -> << "o" >>
      [] f = "generation" -> << "g" >>
      [] f = "text" -> << "t" >>
      [] OTHER -> << [text |-> << "x" >>], EmptyDict, [text |-> << "y" >>] >>

TypeParts ==
    { [type |-> "content_block_delta", delta |-> [text |-> << "d" >>]],
      [type |-> "content_block_delta"],
      [type |-> "message_delta", delta |-> [content |-> << [text |-> << "m" >>] >>]],
      [type |-> "message_delta", delta |-> [content |-> << >>]],
      [type |-> "message_start"] }

Chunk(S, tp) == [k \in S \cup DOMAIN tp |-> IF k \in S THEN FieldValue(k) ELSE tp[k]]

\* The frames the decoder is run over on its own: every field alone, every pair of
\* fields, every kind of `type` frame alone and beside each other field, all six
\* fields at once, the empty object and a heartbeat
DecoderFrames ==
    { Chunk(S, EmptyDict) : S \in {X \in SUBSET LowFields : Cardinality(X) <= 2} }
    \cup { Chunk({}, tp) : tp \in TypeParts }
    \cup { Chunk({f}, tp) : f \in LowFields,
                           tp \in { [type |-> "content_block_delta",
                                     delta |-> [text |-> << "d" >>]],
                                    [type |-> "message_start"] } }
    \cup { Chunk(LowFields, [type |-> "message_start"]), [heartbeat |-> TRUE] }

\* A body that holds the path of every family, each with its own text
AllPathsBody ==
    [content |-> << [text |-> << "A" >>] >>,
     completion |-> << "B" >>,
     results |-> << [outputText |-> << "C" >>] >>,
     generation |-> << "D" >>,
     outputs |-> << [text |-> << "E" >>] >>]

\* The bodies invoke_model returns to chat_command
ChatBodies ==
    { EmptyDict,
      AllPathsBody,
      [completion |-> << "r" >>],
      [content |-> << [text |-> << "r" >>] >>],
      [content |-> << EmptyDict >>],
      [content |-> << >>],
      [results |-> << [outputText |-> << "r" >>] >>],
      [generation |-> << "r" >>],
      [outputs |-> << [text |-> << "r" >>] >>],
      [outputs |-> << [text |-> EmptyText] >>] }

-----------------------------------------------------------------------------
(* cli/chat.py: chat_command and stream_chat_command *)

NoStreamConfig ==
    [chunk_size |-> 0, retry_attempts |-> 0, base_delay |-> 0, max_delay |-> 0,
     throttle_cooldown |-> 0]

Pending == [kind |-> "pending", text |-> EmptyText, error |-> None, cause |-> None]

Returned(text) == [kind |-> "returned", text |-> text, error |-> None, cause |-> None]

\* The for loop ran out (or never ran): the function ends without a return statement
ReturnedNone == [kind |-> "returned_none", text |-> EmptyText, error |-> None, cause |-> None]

\* The handlers as `return complete_response`: the error is swallowed
returns_partial(error, cause) == Returned(complete_response)

\* raise RuntimeError("AWS API error") without str(e): the failure that caused it is
\* not told
raised_opaque(error, cause) ==
    [kind |-> "raised", text |-> EmptyText, error |-> error, cause |-> None]

\* raise (chat.py 313, 318, 322)
Raised(error, cause) == [kind |-> "raised", text |-> EmptyText, error |-> error, cause |-> cause]

is_client_error(e) == e \in {"ThrottlingException", "ClientError"}

\* retry_on with `attempt < retry_attempts`: the last attempt backs off too
retry_on_off_by_one(e, attempt_no, config) ==
    /\ e = "ThrottlingException"
    /\ attempt_no < config.retry_attempts

\* retry_on without the test for "ThrottlingException": every ClientError is retried
retry_on_any_client_error(e, attempt_no, config) ==
    attempt_no < config.retry_attempts - 1

\* retry_on without the test of the attempt number: every throttled attempt backs off
retry_on_every_throttle(e, attempt_no, config) == e = "ThrottlingException"

\* retry_on as if handle_rate_limit and `continue` were under `if print_fn:`: a call
\* without an observer does not retry
retry_on_when_observed(e, attempt_no, config) ==
    /\ print_fn
    /\ e = "ThrottlingException"
    /\ attempt_no < config.retry_attempts - 1

\* chat.py 310: "ThrottlingException" in str(e) and attempt < retry_attempts - 1
retry_on(e, attempt_no, config) ==
    /\ e = "ThrottlingException"
    /\ attempt_no < config.retry_attempts - 1

\* The outer handlers (chat.py 187-194, 315-322): a ClientError leaves the command as
\* a RuntimeError, anything else as it is
raised_as(e) == IF is_client_error(e) THEN "RuntimeError" ELSE e

\* accumulate as `complete_response = chunk`
accumulate_overwrite(text, chunk) == chunk

\* complete_response += chunk (chat.py 299)
accumulate(text, chunk) == text \o chunk

RECURSIVE accumulate_all(_, _)
accumulate_all(text, chunks) ==
    IF chunks = << >> THEN text
    ELSE accumulate_all(accumulate(text, Head(chunks)), Tail(chunks))

\* The history after `if chat_history is not None: chat_history.add_message(...)`
commit(history, text) ==
    IF history.present
    THEN [history EXCEPT !.messages = add_message(history.messages, "assistant", text)]
    ELSE history

RECURSIVE FrameCount(_)
FrameCount(log) == IF log = << >> THEN 0 ELSE Len(Head(log).frames) + FrameCount(Tail(log))

Init ==
    /\ pc = "idle"
    /\ mode = "none"
    /\ model_name = "none"
    /\ max_tokens = 0
    /\ temperature = 0
    /\ top_p = DefaultTopP
    /\ top_k = DefaultTopK
    /\ system_prompt = EmptyText
    /\ chat_history \in Histories
    /\ history0 = chat_history
    /\ model_config = NoConfig
    /\ stream_config = NoStreamConfig
    /\ formatted_prompt = NoPrompt
    /\ request = EmptyDict
    /\ attempt = 0
    /\ complete_response = EmptyText
    /\ chunk_count = 0
    /\ accumulated_text = EmptyText
    /\ stdout = << >>
    /\ observer = << >>
    /\ sleeps = << >>
    /\ transport_log = << >>
    /\ response_body = << >>
    /\ result = Pending
    /\ print_fn = TRUE
    /\ parked = EmptyDict
    /\ registry = MODEL_REGISTRY
    /\ calls = << >>

\* Both commands up to the first transport call (chat.py 81-156 and 219-288): the
\* model lookup, the config, the prompt, the request body.  chat_command with
\* stream=True hands over to stream_chat_command (chat.py 107-115), which does the
\* same again.
Begin(m, names, prompts) ==
    /\ pc = "idle"
    /\ \E name \in names, tokens \in MaxTokensChoices,
          temp \in TemperatureChoices, sys \in prompts :
        LET built == from_model_name(name, tokens, temp)
            fp == format_prompt(Prompt, sys, chat_history)
            built_body == request_body(get_model_info(name).model_id, built.config, fp,
                                       Prompt, sys)
        IN
        /\ mode' = m
        /\ model_name' = name
        /\ max_tokens' = tokens
        /\ temperature' = temp
        /\ system_prompt' = sys
        /\ registry' = registry_after_get(registry, name)
        /\ IF get_model_info(name) = NoModelInfo
           THEN /\ pc' = "done"
                /\ result' = Raised("ValueError", "Unknown model")
                /\ UNCHANGED << model_config, stream_config, formatted_prompt, request,
                                chat_history >>
           ELSE IF ~built.ok
           THEN /\ pc' = "done"
                /\ result' = Raised(built.error, built.msg)
                /\ UNCHANGED << model_config, stream_config, formatted_prompt, request,
                                chat_history >>
           ELSE /\ model_config' = built.config
                /\ formatted_prompt' = fp
                /\ chat_history' =
                      [chat_history EXCEPT
                          !.messages = messages_after_format_prompt(Prompt, sys, chat_history)]
                /\ stream_config' = IF m = "stream" THEN StreamConfig ELSE stream_config
                /\ IF built_body.raised
                   THEN /\ pc' = "done"
                        /\ result' = Raised("ValueError", "Unsupported model")
                        /\ request' = request
                   ELSE /\ request' = built_body.body
                        /\ IF m = "stream"
                           THEN IF StreamConfig.retry_attempts > 0
                                THEN pc' = "invoke" /\ result' = result
                                ELSE pc' = "done" /\ result' = ReturnedNone
                           ELSE pc' = "chat_invoke" /\ result' = result
    /\ UNCHANGED << top_p, top_k, history0, attempt, complete_response, chunk_count,
                    accumulated_text, stdout, observer, sleeps, transport_log,
                    response_body, calls >>
    /\ UNCHANGED << print_fn, parked >>

chat_command ==
    \/ Begin("chat", ModelNames, SystemPrompts)
    \/ Begin("stream", StreamModelNames, StreamSystemPrompts)

stream_chat_command == Begin("stream", StreamModelNames, StreamSystemPrompts)

\* The `except ClientError` clause of the retry loop (chat.py 309-313), then the outer
\* handlers for what it lets through.  After handle_rate_limit the loop goes on to its
\* next turn, if range(retry_attempts) has one.
stream_except(e) ==
    IF is_client_error(e) /\ retry_on(e, attempt, stream_config)
    THEN \E jitter_pct \in JitterChoices :
            LET h == handle_rate_limit(attempt + 1, stream_config, jitter_pct) IN
            /\ observer' = notify(print_fn, observer, << h.message >>)
            /\ sleeps' = Append(sleeps, h.sleep)
            /\ attempt' = attempt + 1
            /\ IF attempt + 1 < stream_config.retry_attempts
               THEN pc' = "invoke" /\ result' = result
               ELSE pc' = "done" /\ result' = ReturnedNone
    ELSE /\ pc' = "done"
         /\ result' = Raised(raised_as(e), e)
         /\ UNCHANGED << observer, sleeps, attempt >>

\* client.invoke_model_with_response_stream returns a stream (chat.py 290-297, and
\* process_stream_chunks up to its loop, streaming.py 22-26)
invoke_stream ==
    /\ pc = "invoke"
    /\ transport_log' = Append(transport_log, [outcome |-> "streaming", frames |-> << >>])
    /\ pc' = "drain"
    /\ chunk_count' = 0
    /\ accumulated_text' = EmptyText
    /\ observer' = notify(print_fn, observer, << [kind |-> "processing"] >>)
    /\ UNCHANGED << mode, model_name, max_tokens, temperature, top_p, top_k,
                    system_prompt, request, chat_history, history0, model_config,
                    stream_config, formatted_prompt, attempt, complete_response, stdout,
                    sleeps, response_body, result >>
    /\ UNCHANGED << registry, calls, print_fn, parked >>

\* client.invoke_model_with_response_stream raises
invoke_stream_raises ==
    /\ pc = "invoke"
    /\ \E e \in Exceptions :
        /\ transport_log' = Append(transport_log, [outcome |-> e, frames |-> << >>])
        /\ stream_except(e)
    /\ UNCHANGED << mode, model_name, max_tokens, temperature, top_p, top_k,
                    system_prompt, request, chat_history, history0, model_config,
                    stream_config, formatted_prompt, complete_response, chunk_count,
                    accumulated_text, stdout, response_body >>
    /\ UNCHANGED << registry, calls, print_fn, parked >>

\* process_chunk with the texts kept back from the sink: nothing is printed while the
\* stream is read
process_chunk_buffered(frames, bound) ==
    /\ pc = "drain"
    /\ FrameCount(transport_log) < bound
    /\ \E chunk \in frames :
        LET texts == chunk_texts(chunk)
            n == Len(transport_log)
        IN
        /\ transport_log' = [transport_log EXCEPT ![n].frames = Append(@, chunk),
                                                  ![n].outcome =
                                                      IF chunk_raises(chunk)
                                                      THEN "IndexError" ELSE @]
        /\ chunk_count' = chunk_count + 1
        /\ IF chunk_raises(chunk)
           THEN /\ pc' = "done"
                /\ result' = Raised(raised_as("IndexError"), "IndexError")
                /\ UNCHANGED << accumulated_text, stdout, complete_response, observer >>
           ELSE /\ accumulated_text' = accumulate_all(accumulated_text, texts)
                /\ stdout' = stdout
                /\ complete_response' = accumulate_all(complete_response, texts)
                /\ observer' = notify(print_fn, observer, progress_messages(chunk_count + 1))
                /\ UNCHANGED << pc, result >>
    /\ UNCHANGED << mode, model_name, max_tokens, temperature, top_p, top_k,
                    system_prompt, request, chat_history, history0, model_config,
                    stream_config, formatted_prompt, attempt, sleeps, response_body >>
    /\ UNCHANGED << registry, calls, print_fn, parked >>

\* One turn of process_stream_chunks' loop (streaming.py 28-65) with the body of the
\* caller's loop for each text it yields (chat.py 297-299)
process_chunk(frames, bound) ==
    /\ pc = "drain"
    /\ FrameCount(transport_log) < bound
    /\ \E chunk \in frames :
        LET texts == chunk_texts(chunk)
            n == Len(transport_log)
        IN
        /\ transport_log' = [transport_log EXCEPT ![n].frames = Append(@, chunk),
                                                  ![n].outcome =
                                                      IF chunk_raises(chunk)
                                                      THEN "IndexError" ELSE @]
        /\ chunk_count' = chunk_count + 1
        /\ IF chunk_raises(chunk)
           THEN /\ pc' = "done"
                /\ result' = Raised(raised_as("IndexError"), "IndexError")
                /\ UNCHANGED << accumulated_text, stdout, complete_response, observer >>
           ELSE /\ accumulated_text' = accumulate_all(accumulated_text, texts)
                /\ stdout' = stdout \o texts
                /\ complete_response' = accumulate_all(complete_response, texts)
                /\ observer' = notify(print_fn, observer, progress_messages(chunk_count + 1))
                /\ UNCHANGED << pc, result >>
    /\ UNCHANGED << mode, model_name, max_tokens, temperature, top_p, top_k,
                    system_prompt, request, chat_history, history0, model_config,
                    stream_config, formatted_prompt, attempt, sleeps, response_body >>
    /\ UNCHANGED << registry, calls, print_fn, parked >>

\* The stream ends: the generator's last message (streaming.py 67-68), the commit to
\* the history and the return (chat.py 301-307)
stream_end ==
    /\ pc = "drain"
    /\ transport_log' = [transport_log EXCEPT ![Len(transport_log)].outcome = "ok"]
    /\ observer' = notify(print_fn, observer, << [kind |-> "streamed",
                                                  chars |-> Len(accumulated_text),
                                                  chunks |-> chunk_count] >>)
    /\ chat_history' = commit(chat_history, complete_response)
    /\ result' = Returned(complete_response)
    /\ pc' = "done"
    /\ UNCHANGED << mode, model_name, max_tokens, temperature, top_p, top_k,
                    system_prompt, request, history0, model_config, stream_config,
                    formatted_prompt, attempt, complete_response, chunk_count,
                    accumulated_text, stdout, sleeps, response_body >>
    /\ UNCHANGED << registry, calls, print_fn, parked >>

\* Reading the next event of the stream raises
stream_raises ==
    /\ pc = "drain"
    /\ \E e \in Exceptions :
        /\ transport_log' = [transport_log EXCEPT ![Len(transport_log)].outcome = e]
        /\ stream_except(e)
    /\ UNCHANGED << mode, model_name, max_tokens, temperature, top_p, top_k,
                    system_prompt, request, chat_history, history0, model_config,
                    stream_config, formatted_prompt, complete_response, chunk_count,
                    accumulated_text, stdout, response_body >>
    /\ UNCHANGED << registry, calls, print_fn, parked >>

\* client.invoke_model returns a body: the parsing, the commit, the return
\* (chat.py 158-185)
invoke_model ==
    /\ pc = "chat_invoke"
    /\ \E body \in ChatBodies :
        LET parsed == response_text(model_config.model_id, body) IN
        /\ transport_log' = Append(transport_log, [outcome |-> "ok", frames |-> << >>])
        /\ response_body' = << body >>
        /\ pc' = "done"
        /\ IF parsed.raised
           THEN /\ result' = Raised(raised_as("IndexError"), "IndexError")
                /\ UNCHANGED chat_history
           ELSE /\ chat_history' = commit(chat_history, parsed.text)
                /\ result' = Returned(parsed.text)
    /\ UNCHANGED << mode, model_name, max_tokens, temperature, top_p, top_k,
                    system_prompt, request, history0, model_config, stream_config,
                    formatted_prompt, attempt, complete_response, chunk_count,
                    accumulated_text, stdout, observer, sleeps >>
    /\ UNCHANGED << registry, calls, print_fn, parked >>

\* invoke_model_raises with a retry loop like the streaming command's: a throttled call
\* sleeps and invokes again
invoke_model_raises_retrying ==
    /\ pc = "chat_invoke"
    /\ \E e \in Exceptions :
        /\ transport_log' = Append(transport_log, [outcome |-> e, frames |-> << >>])
        /\ IF e = "ThrottlingException"
           THEN /\ sleeps' = Append(sleeps, handle_rate_limit(1, StreamConfig, 100).sleep)
                /\ UNCHANGED << pc, result >>
           ELSE /\ result' = Raised(raised_as(e), e)
                /\ pc' = "done"
                /\ UNCHANGED sleeps
    /\ UNCHANGED << mode, model_name, max_tokens, temperature, top_p, top_k,
                    system_prompt, request, chat_history, history0, model_config,
                    stream_config, formatted_prompt, attempt, complete_response,
                    chunk_count, accumulated_text, stdout, observer,
                    response_body >>
    /\ UNCHANGED << registry, calls, print_fn, parked >>

\* client.invoke_model raises (chat.py 187-194)
invoke_model_raises ==
    /\ pc = "chat_invoke"
    /\ \E e \in Exceptions :
        /\ transport_log' = Append(transport_log, [outcome |-> e, frames |-> << >>])
        /\ result' = Raised(raised_as(e), e)
    /\ pc' = "done"
    /\ UNCHANGED << mode, model_name, max_tokens, temperature, top_p, top_k,
                    system_prompt, request, chat_history, history0, model_config,
                    stream_config, formatted_prompt, attempt, complete_response,
                    chunk_count, accumulated_text, stdout, observer, sleeps,
                    response_body >>
    /\ UNCHANGED << registry, calls, print_fn, parked >>

Next ==
    \/ chat_command
    \/ stream_chat_command
    \/ invoke_stream
    \/ invoke_stream_raises
    \/ process_chunk(StreamFrames, MaxFrames)
    \/ stream_end
    \/ stream_raises
    \/ invoke_model
    \/ invoke_model_raises

Spec == Init /\ [][Next]_vars

-----------------------------------------------------------------------------
(* Both commands run with every model name and system prompt, over a transport whose
   streams end without a frame: what is sent for each model, and what comes back. *)

chat_command_any_model == Begin("chat", ModelNames, SystemPrompts)

stream_chat_command_any_model == Begin("stream", ModelNames, SystemPrompts)

NextRequest ==
    \/ chat_command_any_model
    \/ stream_chat_command_any_model
    \/ invoke_stream
    \/ invoke_stream_raises
    \/ stream_end
    \/ stream_raises
    \/ invoke_model
    \/ invoke_model_raises

SpecRequest == Init /\ [][NextRequest]_vars

-----------------------------------------------------------------------------
(* The stream decoder on its own: process_stream_chunks over one stream whose frames
   are drawn from DecoderFrames, consumed by the loop of stream_chat_command.  The
   first state is the one Spec reaches when the first transport call of
   stream_chat_command("P", "claude-sonnet") has returned its stream. *)

InitDecoder ==
    /\ registry = MODEL_REGISTRY
    /\ pc = "drain"
    /\ mode = "stream"
    /\ model_name = "claude-sonnet"
    /\ max_tokens = DefaultMaxTokens
    /\ temperature = DefaultTemperature
    /\ top_p = DefaultTopP
    /\ top_k = DefaultTopK
    /\ system_prompt = EmptyText
    /\ chat_history = NoHistory
    /\ history0 = chat_history
    /\ model_config = from_model_name("claude-sonnet", DefaultMaxTokens, DefaultTemperature).config
    /\ stream_config = StreamConfig
    /\ formatted_prompt = format_prompt(Prompt, EmptyText, NoHistory)
    /\ request = request_body(model_config.model_id, model_config, formatted_prompt, Prompt,
                              EmptyText).body
    /\ attempt = 0
    /\ complete_response = EmptyText
    /\ chunk_count = 0
    /\ accumulated_text = EmptyText
    /\ stdout = << >>
    /\ observer = << [kind |-> "processing"] >>
    /\ sleeps = << >>
    /\ transport_log = << [outcome |-> "streaming", frames |-> << >>] >>
    /\ response_body = << >>
    /\ result = Pending
    /\ print_fn = TRUE
    /\ parked = EmptyDict
    /\ calls = << >>

NextDecoder ==
    \/ process_chunk(DecoderFrames, MaxDecoderFrames)
    \/ stream_end

SpecDecoder == InitDecoder /\ [][NextDecoder]_vars

-----------------------------------------------------------------------------
(* models/model_config.py on its own: ModelConfig(...) and ModelConfig.from_model_name
   called once with arguments drawn from the sets below.  The arguments are kept in
   max_tokens, temperature, top_p and top_k, the instance (if one is made) in
   model_config, and result tells whether the call returned or what it raised. *)

\* temperature and top_p around the ends of [0, 1], in tenths
UnitRange == {-1, 0, DefaultTemperature, DefaultTopP, 11}

TopKRange == {-1, 0, DefaultTopK}

PositiveRange == {-1, 0, 1, DefaultMaxTokens}

\* max_tokens at and right above every context window of the catalog
WindowRange ==
    {0, 1, DefaultMaxTokens, 250000}
    \cup { MODEL_REGISTRY[n].context_window + d : n \in DOMAIN MODEL_REGISTRY, d \in {0, 1} }

ConfigModelNames == ModelNames \cup {"", "CLAUDE-SONNET"}

\* A model id of each family, and tests/test_model_config.py's unsupported one
ConfigModelIds ==
    { << "anthropic.", "claude-3", "-sonnet-20240229-v1:0" >>,
      << "anthropic.", "claude-v2" >>,
      << "amazon.", "titan-text-express-v1" >>,
      << "meta.", "llama3-70b-instruct-v1:0" >>,
      << "mistral.", "mistral-large-2402-v1:0" >>,
      << "unsupported.", "model" >> }

\* stop_sequences: left at None, an empty list, a list of one sequence
StopSequences == {NoneList, List(<< >>), List(<< << "E", "N", "D" >> >>)}

InitConfig ==
    /\ pc = "idle"
    /\ mode = "none"
    /\ model_name = "none"
    /\ max_tokens = 0
    /\ temperature = 0
    /\ top_p = DefaultTopP
    /\ top_k = DefaultTopK
    /\ system_prompt = EmptyText
    /\ chat_history = NoHistory
    /\ history0 = chat_history
    /\ model_config = NoConfig
    /\ stream_config = NoStreamConfig
    /\ formatted_prompt = NoPrompt
    /\ request = EmptyDict
    /\ attempt = 0
    /\ complete_response = EmptyText
    /\ chunk_count = 0
    /\ accumulated_text = EmptyText
    /\ stdout = << >>
    /\ observer = << >>
    /\ sleeps = << >>
    /\ transport_log = << >>
    /\ response_body = << >>
    /\ result = Pending
    /\ print_fn = TRUE
    /\ parked = EmptyDict
    /\ registry = MODEL_REGISTRY
    /\ calls = << >>

\* ModelConfig(model_id, temperature=, max_tokens=, top_p=, top_k=, stop_sequences=):
\* the dataclass __init__ sets the fields, then __post_init__ validates them
ModelConfig_new ==
    /\ pc = "idle"
    /\ \E id \in ConfigModelIds, temp \in UnitRange, tokens \in PositiveRange,
          p \in UnitRange, k \in TopKRange, stop \in StopSequences :
        LET c == [model_id |-> id,
                  temperature |-> temp,
                  max_tokens |-> tokens,
                  top_p |-> p,
                  top_k |-> k,
                  stop_sequences |-> stop,
                  api_version |-> None]
        IN
        /\ temperature' = temp
        /\ max_tokens' = tokens
        /\ top_p' = p
        /\ top_k' = k
        /\ IF ModelConfig_post_init(c) = None
           THEN /\ model_config' = c
                /\ result' = Returned(EmptyText)
           ELSE /\ model_config' = NoConfig
                /\ result' = Raised("ValueError", ModelConfig_post_init(c))
    /\ mode' = "ModelConfig"
    /\ pc' = "done"
    /\ UNCHANGED << model_name, system_prompt, chat_history, history0, stream_config,
                    formatted_prompt, request, attempt, complete_response, chunk_count,
                    accumulated_text, stdout, observer, sleeps, transport_log,
                    response_body >>
    /\ UNCHANGED << registry, calls, print_fn, parked >>

\* ModelConfig.from_model_name(model_name, max_tokens=, temperature=)
ModelConfig_from_model_name ==
    /\ pc = "idle"
    /\ \E name \in ConfigModelNames, tokens \in WindowRange, temp \in UnitRange :
        LET built == from_model_name(name, tokens, temp) IN
        /\ model_name' = name
        /\ max_tokens' = tokens
        /\ temperature' = temp
        /\ model_config' = built.config
        /\ result' = IF built.ok THEN Returned(EmptyText) ELSE Raised(built.error, built.msg)
        /\ registry' = registry_after_get(registry, name)
    /\ mode' = "from_model_name"
    /\ pc' = "done"
    /\ UNCHANGED << top_p, top_k, system_prompt, chat_history, history0, stream_config,
                    formatted_prompt, request, attempt, complete_response, chunk_count,
                    accumulated_text, stdout, observer, sleeps, transport_log,
                    response_body, calls >>
    /\ UNCHANGED << print_fn, parked >>

\* config.to_request_body() on the instance just made
ModelConfig_to_request_body ==
    /\ pc = "done"
    /\ mode \in {"ModelConfig", "from_model_name"}
    /\ result.kind = "returned"
    /\ LET built == to_request_body(model_config) IN
        /\ request' = built.body
        /\ result' = IF built.raised THEN Raised("ValueError", "Unsupported model")
                     ELSE result
    /\ mode' = "to_request_body"
    /\ UNCHANGED << pc, model_name, max_tokens, temperature, top_p, top_k, system_prompt,
                    chat_history, history0, model_config, stream_config, formatted_prompt,
                    attempt, complete_response, chunk_count, accumulated_text, stdout,
                    observer, sleeps, transport_log, response_body >>
    /\ UNCHANGED << registry, calls, print_fn, parked >>

StreamFields == {"chunk_size", "retry_attempts", "base_delay", "max_delay", "throttle_cooldown"}

\* The values a keyword argument of StreamConfig(...) is given, delays in seconds
StreamFieldRange(f) ==
    CASE f = "chunk_size" -> {0, 1}
      [] f = "retry_attempts" -> {-1, 0, 3}
      [] f = "base_delay" -> {-1, 0, 1, 31}
      [] f = "max_delay" -> {0, 1, DefaultMaxDelay}
      [] OTHER -> {-1, 0}

\* The keyword arguments of one call: any of the fields, each with one of its values
StreamKwargs ==
    UNION { [given -> UNION {StreamFieldRange(f) : f \in given}] : given \in SUBSET StreamFields }

\* StreamConfig(**kwargs)
StreamConfig_new ==
    /\ pc = "idle"
    /\ \E kwargs \in StreamKwargs :
        LET c == StreamConfig_init(kwargs) IN
        /\ \A f \in DOMAIN kwargs : kwargs[f] \in StreamFieldRange(f)
        /\ calls' = Append(calls, [op |-> "StreamConfig", kwargs |-> kwargs])
        /\ IF StreamConfig_post_init(c) = None
           THEN /\ stream_config' = c
                /\ result' = Returned(EmptyText)
           ELSE /\ stream_config' = NoStreamConfig
                /\ result' = Raised("ValueError", StreamConfig_post_init(c))
    /\ mode' = "StreamConfig"
    /\ pc' = "done"
    /\ UNCHANGED << model_name, max_tokens, temperature, top_p, top_k, system_prompt,
                    chat_history, history0, model_config, formatted_prompt, request,
                    attempt, complete_response, chunk_count, accumulated_text, stdout,
                    observer, sleeps, transport_log, response_body, registry >>
    /\ UNCHANGED << print_fn, parked >>

MaxBackoffs == 5

\* random.random() in [0, 1): the jitter factor at its ends and in the middle
JitterRange == {50, 100, 149}

\* handle_rate_limit(attempt, config, print_fn) on the StreamConfig just made, for
\* attempt = 0, 1, 2, ... in turn
handle_rate_limit_call ==
    /\ pc = "done"
    /\ mode \in {"StreamConfig", "handle_rate_limit"}
    /\ result.kind = "returned"
    /\ Len(sleeps) < MaxBackoffs
    /\ \E jitter_pct \in JitterRange :
        LET h == handle_rate_limit(Len(sleeps), stream_config, jitter_pct) IN
        /\ observer' = notify(print_fn, observer, << h.message >>)
        /\ sleeps' = Append(sleeps, h.sleep)
    /\ mode' = "handle_rate_limit"
    /\ UNCHANGED << pc, model_name, max_tokens, temperature, top_p, top_k, system_prompt,
                    chat_history, history0, model_config, stream_config, formatted_prompt,
                    request, attempt, complete_response, chunk_count, accumulated_text,
                    stdout, transport_log, response_body, result >>
    /\ UNCHANGED << registry, calls, print_fn, parked >>

OverrideFields == {"max_tokens", "temperature", "top_p", "top_k"}

\* The values a keyword argument of from_model_name is given: in range, out of range,
\* and for max_tokens one above the largest context window of the catalog
OverrideRange(f) ==
    CASE f = "max_tokens" -> {0, DefaultMaxTokens, 200001}
      [] f = "temperature" -> {DefaultTemperature, 11}
      [] f = "top_p" -> {-1, DefaultTopP}
      [] OTHER -> {-1, DefaultTopK}

OverrideNames == {"claude-sonnet", "mistral-7b", "invalid-model"}

\* ModelConfig.from_model_name(model_name, **kwargs), logged with its arguments
ModelConfig_from_model_name_kwargs ==
    /\ pc = "idle"
    /\ \E name \in OverrideNames, given \in SUBSET OverrideFields :
        \E kwargs \in [given -> UNION {OverrideRange(f) : f \in given}] :
            LET built == from_model_name_kwargs(name, kwargs) IN
            /\ \A f \in given : kwargs[f] \in OverrideRange(f)
            /\ calls' = Append(calls, [op |-> "from_model_name", name |-> name,
                                       kwargs |-> kwargs])
            /\ model_name' = name
            /\ max_tokens' = Get(kwargs, "max_tokens", DefaultMaxTokens)
            /\ temperature' = Get(kwargs, "temperature", DefaultTemperature)
            /\ top_p' = Get(kwargs, "top_p", DefaultTopP)
            /\ top_k' = Get(kwargs, "top_k", DefaultTopK)
            /\ model_config' = built.config
            /\ result' = IF built.ok THEN Returned(EmptyText)
                         ELSE Raised(built.error, built.msg)
            /\ registry' = registry_after_get(registry, name)
    /\ mode' = "from_model_name_kwargs"
    /\ pc' = "done"
    /\ UNCHANGED << system_prompt, chat_history, history0, stream_config,
                    formatted_prompt, request, attempt, complete_response, chunk_count,
                    accumulated_text, stdout, observer, sleeps, transport_log,
                    response_body, print_fn, parked >>

NextConfig ==
    \/ ModelConfig_from_model_name_kwargs
    \/ ModelConfig_new
    \/ ModelConfig_from_model_name
    \/ ModelConfig_to_request_body
    \/ StreamConfig_new
    \/ handle_rate_limit_call

SpecConfig == InitConfig /\ [][NextConfig]_vars

-----------------------------------------------------------------------------
(* ChatHistory and format_prompt on their own: a history (or none) that grows by
   add_message, up to MaxHistory messages, and one call of format_prompt on it. *)

MaxHistory == 12

InitPrompt ==
    /\ pc = "idle"
    /\ mode = "none"
    /\ model_name = "none"
    /\ max_tokens = 0
    /\ temperature = 0
    /\ top_p = DefaultTopP
    /\ top_k = DefaultTopK
    /\ system_prompt = EmptyText
    /\ chat_history \in {NoHistory, [present |-> TRUE, messages |-> << >>]}
    /\ history0 = chat_history
    /\ model_config = NoConfig
    /\ stream_config = NoStreamConfig
    /\ formatted_prompt = NoPrompt
    /\ request = EmptyDict
    /\ attempt = 0
    /\ complete_response = EmptyText
    /\ chunk_count = 0
    /\ accumulated_text = EmptyText
    /\ stdout = << >>
    /\ observer = << >>
    /\ sleeps = << >>
    /\ transport_log = << >>
    /\ response_body = << >>
    /\ result = Pending
    /\ print_fn = TRUE
    /\ parked = EmptyDict
    /\ registry = MODEL_REGISTRY
    /\ calls = << >>

\* chat_history.add_message(role, content) by the caller, between two commands
ChatHistory_add_message ==
    /\ pc = "idle"
    /\ chat_history.present
    /\ Len(chat_history.messages) < MaxHistory
    /\ \E role \in {"user", "assistant"} :
        chat_history' =
            [chat_history EXCEPT !.messages =
                add_message(@, role, << "h", ToString(Len(chat_history.messages) + 1) >>)]
    /\ history0' = chat_history'
    /\ UNCHANGED << pc, mode, model_name, max_tokens, temperature, top_p, top_k,
                    system_prompt, model_config, stream_config, formatted_prompt, request,
                    attempt, complete_response, chunk_count, accumulated_text, stdout,
                    observer, sleeps, transport_log, response_body, result >>
    /\ UNCHANGED << registry, calls, print_fn, parked >>

\* format_prompt(prompt, system_prompt, chat_history)
format_prompt_call ==
    /\ pc = "idle"
    /\ \E sys \in SystemPrompts :
        /\ system_prompt' = sys
        /\ formatted_prompt' = format_prompt(Prompt, sys, chat_history)
        /\ chat_history' =
              [chat_history EXCEPT
                  !.messages = messages_after_format_prompt(Prompt, sys, chat_history)]
    /\ mode' = "format_prompt"
    /\ pc' = "done"
    /\ UNCHANGED << model_name, max_tokens, temperature, top_p, top_k,
                    history0, model_config, stream_config, request, attempt,
                    complete_response, chunk_count, accumulated_text, stdout, observer,
                    sleeps, transport_log, response_body, result >>
    /\ UNCHANGED << registry, calls, print_fn, parked >>

\* The max_messages arguments get_context is called with: none of the history, the
\* last message (tests/test_chat.py:43), two, and the default
MaxMessagesChoices == {0, 1, 2, DefaultMaxMessages}

\* chat_history.get_context(max_messages=n) by the caller, logged with what it returned
ChatHistory_get_context ==
    /\ pc = "idle"
    /\ chat_history.present
    /\ \E n \in MaxMessagesChoices :
        calls' = Append(calls, [op |-> "get_context", max_messages |-> n,
                                context |-> get_context(chat_history.messages, n)])
    /\ mode' = "get_context"
    /\ pc' = "done"
    /\ UNCHANGED << model_name, max_tokens, temperature, top_p, top_k, system_prompt,
                    chat_history, history0, model_config, stream_config, formatted_prompt,
                    request, attempt, complete_response, chunk_count, accumulated_text,
                    stdout, observer, sleeps, transport_log, response_body, result,
                    registry >>
    /\ UNCHANGED << print_fn, parked >>

NextPrompt ==
    \/ ChatHistory_add_message
    \/ format_prompt_call
    \/ ChatHistory_get_context

SpecPrompt == InitPrompt /\ [][NextPrompt]_vars

-----------------------------------------------------------------------------
(* The registry and ModelConfig called by a program that also runs a command: lookups
   and from_model_name calls before and after a chat_command or stream_chat_command,
   each logged with what it returned. *)

MaxCalls == 2

LookupNames == {"claude-sonnet", "invalid-model"}

LookupTokens == {DefaultMaxTokens}

NoBuilt == [ok |-> FALSE, error |-> None, msg |-> None, config |-> NoConfig]

NoBody == [raised |-> FALSE, body |-> EmptyDict]

\* One entry of the log: the call, its arguments, where the command stood, and what
\* the call returned or raised
Call(op, name, tokens, temp, info, built, body) ==
    [op |-> op, name |-> name, tokens |-> tokens, temp |-> temp, after |-> pc,
     info |-> info, built |-> built, body |-> body]

\* get_model_info(model_name)
get_model_info_call ==
    /\ pc \in {"idle", "done"}
    /\ Len(calls) < MaxCalls
    /\ \E name \in LookupNames :
        /\ calls' = Append(calls, Call("get_model_info", name, 0, 0, get_model_info(name),
                                       NoBuilt, NoBody))
        /\ registry' = registry_after_get(registry, name)
    /\ UNCHANGED << pc, mode, model_name, max_tokens, temperature, top_p, top_k,
                    system_prompt, chat_history, history0, model_config, stream_config,
                    formatted_prompt, request, attempt, complete_response, chunk_count,
                    accumulated_text, stdout, observer, sleeps, transport_log,
                    response_body, result >>
    /\ UNCHANGED << print_fn, parked >>

\* ModelConfig.from_model_name(model_name, max_tokens, temperature)
from_model_name_call ==
    /\ pc \in {"idle", "done"}
    /\ Len(calls) < MaxCalls
    /\ \E name \in LookupNames, tokens \in LookupTokens :
        /\ calls' = Append(calls, Call("from_model_name", name, tokens, DefaultTemperature,
                                       NoModelInfo,
                                       from_model_name(name, tokens, DefaultTemperature),
                                       NoBody))
        /\ registry' = registry_after_get(registry, name)
    /\ UNCHANGED << pc, mode, model_name, max_tokens, temperature, top_p, top_k,
                    system_prompt, chat_history, history0, model_config, stream_config,
                    formatted_prompt, request, attempt, complete_response, chunk_count,
                    accumulated_text, stdout, observer, sleeps, transport_log,
                    response_body, result >>
    /\ UNCHANGED << print_fn, parked >>

\* to_request_body() on a config that an earlier from_model_name call returned
to_request_body_call ==
    /\ pc \in {"idle", "done"}
    /\ Len(calls) < MaxCalls
    /\ \E i \in 1..Len(calls) :
        /\ calls[i].op = "from_model_name"
        /\ calls[i].built.ok
        /\ calls' = Append(calls, Call("to_request_body", calls[i].name, calls[i].tokens,
                                       calls[i].temp, NoModelInfo, calls[i].built,
                                       to_request_body(calls[i].built.config)))
    /\ UNCHANGED << pc, mode, model_name, max_tokens, temperature, top_p, top_k,
                    system_prompt, chat_history, history0, model_config, stream_config,
                    formatted_prompt, request, attempt, complete_response, chunk_count,
                    accumulated_text, stdout, observer, sleeps, transport_log,
                    response_body, result, registry >>
    /\ UNCHANGED << print_fn, parked >>

\* chat_command with stream=False, for the models the streaming command is run with
chat_command_no_stream == Begin("chat", StreamModelNames, StreamSystemPrompts)

NextCatalog ==
    \/ get_model_info_call
    \/ from_model_name_call
    \/ to_request_body_call
    \/ chat_command_no_stream
    \/ stream_chat_command
    \/ invoke_stream
    \/ invoke_stream_raises
    \/ stream_end
    \/ stream_raises
    \/ invoke_model
    \/ invoke_model_raises

SpecCatalog == InitConfig /\ [][NextCatalog]_vars

-----------------------------------------------------------------------------
(* stream_chat_command over a transport that answers every call and ends every stream:
   each step of the call that can be taken is taken in the end. *)

NextLive ==
    \/ stream_chat_command
    \/ invoke_stream
    \/ invoke_stream_raises
    \/ process_chunk(StreamFrames, MaxFrames)
    \/ stream_end
    \/ stream_raises

SpecLive == InitConfig /\ [][NextLive]_vars /\ WF_vars(NextLive)

-----------------------------------------------------------------------------
(* The decoder on one long stream: enough events for the progress message to come
   twice, with events that yield a text, events that match no rule and an event whose
   decoding raises. *)

MaxProgressFrames == 10

ProgressFrames ==
    { [completion |-> << "a" >>],
      [heartbeat |-> TRUE],
      [type |-> "message_delta", delta |-> [content |-> << >>]] }

NextProgress ==
    \/ process_chunk(ProgressFrames, MaxProgressFrames)
    \/ stream_end

SpecProgress == InitDecoder /\ [][NextProgress]_vars

-----------------------------------------------------------------------------
(* Two calls of stream_chat_command in two threads of one process, each with its own
   ChatHistory, the first with a print_fn and the second with print_fn=None.  One call
   runs at a time; context_switch parks it and resumes the other.  The variables hold
   the arguments and locals of the call that runs, stdout what that call has printed;
   the module-level MODEL_REGISTRY is the one thing the two share. *)

MaxPairInvocations == 2

MaxPairFrames == 1

PairFrames == { [completion |-> << "a" >>] }

\* The arguments and local variables of stream_chat_command (chat.py 196-307), and
\* what the call has printed and was answered so far
local_state ==
    [pc |-> pc, mode |-> mode, model_name |-> model_name, max_tokens |-> max_tokens,
     temperature |-> temperature, top_p |-> top_p, top_k |-> top_k,
     system_prompt |-> system_prompt, chat_history |-> chat_history,
     history0 |-> history0, model_config |-> model_config,
     stream_config |-> stream_config, formatted_prompt |-> formatted_prompt,
     request |-> request, attempt |-> attempt, complete_response |-> complete_response,
     chunk_count |-> chunk_count, accumulated_text |-> accumulated_text,
     stdout |-> stdout, observer |-> observer, sleeps |-> sleeps,
     transport_log |-> transport_log, response_body |-> response_body,
     result |-> result, print_fn |-> print_fn]

InitPair ==
    /\ registry = MODEL_REGISTRY
    /\ calls = << >>
    /\ pc = "idle"
    /\ mode = "none"
    /\ model_name = "none"
    /\ max_tokens = 0
    /\ temperature = 0
    /\ top_p = DefaultTopP
    /\ top_k = DefaultTopK
    /\ system_prompt = EmptyText
    /\ chat_history = [present |-> TRUE, messages |-> << >>]
    /\ history0 = chat_history
    /\ model_config = NoConfig
    /\ stream_config = NoStreamConfig
    /\ formatted_prompt = NoPrompt
    /\ request = EmptyDict
    /\ attempt = 0
    /\ complete_response = EmptyText
    /\ chunk_count = 0
    /\ accumulated_text = EmptyText
    /\ stdout = << >>
    /\ observer = << >>
    /\ sleeps = << >>
    /\ transport_log = << >>
    /\ response_body = << >>
    /\ result = Pending
    /\ print_fn = TRUE
    /\ parked = [local_state EXCEPT !.print_fn = FALSE]

\* The scheduler with complete_response as a module-level variable: the call that
\* resumes goes on with the text the other has accumulated
context_switch_shared_accumulator ==
    /\ parked.pc # "done"
    /\ parked' = local_state
    /\ pc' = parked.pc
    /\ mode' = parked.mode
    /\ model_name' = parked.model_name
    /\ max_tokens' = parked.max_tokens
    /\ temperature' = parked.temperature
    /\ top_p' = parked.top_p
    /\ top_k' = parked.top_k
    /\ system_prompt' = parked.system_prompt
    /\ chat_history' = parked.chat_history
    /\ history0' = parked.history0
    /\ model_config' = parked.model_config
    /\ stream_config' = parked.stream_config
    /\ formatted_prompt' = parked.formatted_prompt
    /\ request' = parked.request
    /\ attempt' = parked.attempt
    /\ chunk_count' = parked.chunk_count
    /\ accumulated_text' = parked.accumulated_text
    /\ stdout' = parked.stdout
    /\ observer' = parked.observer
    /\ sleeps' = parked.sleeps
    /\ transport_log' = parked.transport_log
    /\ response_body' = parked.response_body
    /\ result' = parked.result
    /\ print_fn' = parked.print_fn
    /\ UNCHANGED << complete_response, registry, calls >>

\* The scheduler takes the thread that runs off the processor and resumes the other,
\* if that one has not ended: every argument and local of the call is the thread's own
context_switch ==
    /\ parked.pc # "done"
    /\ parked' = local_state
    /\ pc' = parked.pc
    /\ mode' = parked.mode
    /\ model_name' = parked.model_name
    /\ max_tokens' = parked.max_tokens
    /\ temperature' = parked.temperature
    /\ top_p' = parked.top_p
    /\ top_k' = parked.top_k
    /\ system_prompt' = parked.system_prompt
    /\ chat_history' = parked.chat_history
    /\ history0' = parked.history0
    /\ model_config' = parked.model_config
    /\ stream_config' = parked.stream_config
    /\ formatted_prompt' = parked.formatted_prompt
    /\ request' = parked.request
    /\ attempt' = parked.attempt
    /\ complete_response' = parked.complete_response
    /\ chunk_count' = parked.chunk_count
    /\ accumulated_text' = parked.accumulated_text
    /\ stdout' = parked.stdout
    /\ observer' = parked.observer
    /\ sleeps' = parked.sleeps
    /\ transport_log' = parked.transport_log
    /\ response_body' = parked.response_body
    /\ result' = parked.result
    /\ print_fn' = parked.print_fn
    /\ UNCHANGED << registry, calls >>

\* The transport answers the first MaxPairInvocations calls of each thread
invoke_stream_pair == Len(transport_log) < MaxPairInvocations /\ invoke_stream

invoke_stream_raises_pair == Len(transport_log) < MaxPairInvocations /\ invoke_stream_raises

NextPair ==
    \/ stream_chat_command
    \/ invoke_stream_pair
    \/ invoke_stream_raises_pair
    \/ process_chunk(PairFrames, MaxPairFrames)
    \/ stream_end
    \/ stream_raises
    \/ context_switch

SpecPair == InitPair /\ [][NextPair]_vars

-----------------------------------------------------------------------------
(* What the claims are stated with *)

Done == pc = "done"

StreamDone == mode = "stream" /\ pc = "done"

\* The outcome of each transport invocation, in order
Outcomes == [i \in 1..Len(transport_log) |-> transport_log[i].outcome]

LastAttempt == transport_log[Len(transport_log)]

IsPrefix(s, t) == Len(s) <= Len(t) /\ SubSeq(t, 1, Len(s)) = s

FatalOutcomes == {"ClientError", "Exception"}

-----------------------------------------------------------------------------
(* C1: with the default retry settings, when the transport throttles attempts 1 and 2
   and attempt 3 succeeds, the call succeeds after exactly two backoffs whose delays
   before the jitter are 2.0 and then 4.0 seconds. *)
C1_BackoffTwoThenFour ==
    (StreamDone /\ Outcomes = << "ThrottlingException", "ThrottlingException", "ok" >>)
    => /\ stream_config = StreamConfig
       /\ result.kind = "returned"
       /\ Len(sleeps) = 2
       /\ sleeps[1].base = 2
       /\ sleeps[2].base = 4

(* C2: when an attempt was throttled after delivering some fragments and a later
   attempt succeeded, the returned text is the concatenation of the fragments of the
   successful attempt only. *)
C2_ReturnsSuccessfulAttemptOnly ==
    (StreamDone /\ result.kind = "returned" /\ Len(transport_log) >= 2)
    => result.text = Flatten(decode(LastAttempt.frames))

(* C3: a streaming call never invokes the transport more than retry_attempts times,
   and when every attempt was throttled it has invoked it exactly retry_attempts
   times, has backed off exactly retry_attempts - 1 times, and has failed. *)
C3_AllThrottledExhausts ==
    mode = "stream" =>
        /\ Len(transport_log) <= stream_config.retry_attempts
        /\ ( ( /\ pc = "done"
               /\ Len(transport_log) >= 1
               /\ \A i \in 1..Len(transport_log) : Outcomes[i] = "ThrottlingException" )
             => /\ Len(transport_log) = stream_config.retry_attempts
                /\ Len(sleeps) = stream_config.retry_attempts - 1
                /\ result.kind = "raised" )

C3_Witness ==
    /\ StreamDone
    /\ Len(transport_log) = DefaultRetryAttempts
    /\ \A i \in 1..Len(transport_log) : Outcomes[i] = "ThrottlingException"
    /\ Len(sleeps) = DefaultRetryAttempts - 1
    /\ result.kind = "raised"

(* C4: a failure of the streaming transport that is not throttling ends the call at
   once, whatever the attempt: it is the last invocation, no backoff follows it (the
   backoffs are those of the throttled attempts before it), and the call raises with
   that failure as its cause. *)
C4_NonThrottlingIsFatal ==
    mode = "stream" =>
        \A i \in 1..Len(transport_log) :
            Outcomes[i] \in FatalOutcomes =>
                /\ i = Len(transport_log)
                /\ pc = "done"
                /\ result.kind = "raised"
                /\ result.cause = Outcomes[i]
                /\ Len(sleeps) = i - 1

C4_Witness ==
    /\ StreamDone
    /\ Len(transport_log) = 3
    /\ Outcomes[1] = "ThrottlingException"
    /\ Outcomes[2] = "ThrottlingException"
    /\ Outcomes[3] = "ClientError"
    /\ Len(LastAttempt.frames) >= 1
    /\ Len(sleeps) = 2
    /\ result.kind = "raised"

(* C5: a command given a history appends exactly one message, role assistant and the
   returned text as content, when it returns; in every other state (the command still
   running, or failed with any error) the history is what it was before the call. *)
C5_OnlySuccessCommitted ==
    IF pc = "done" /\ result.kind = "returned" /\ history0.present
    THEN /\ chat_history.present
         /\ chat_history.messages =
                history0.messages \o << [role |-> "assistant", content |-> result.text] >>
    ELSE chat_history = history0

C5_Witness ==
    /\ StreamDone
    /\ result.kind = "raised"
    /\ Len(sleeps) >= 1
    /\ Len(stdout) >= 1
    /\ history0.present
    /\ Len(history0.messages) = 2
    /\ chat_history = history0

(* C6: the sink only ever grows, and the step in which a streaming call meets a fatal
   error (any exception that is not retried) leaves the sink as it is and ends the
   call by raising, never by returning the partial text. *)
C6_PartialOutputNotRetracted ==
    [][ /\ IsPrefix(stdout, stdout')
        /\ ( ( /\ mode = "stream"
               /\ pc # "done"
               /\ pc' = "done"
               /\ transport_log' # << >>
               /\ transport_log'[Len(transport_log')].outcome # "ok" )
             => /\ stdout' = stdout
                /\ result'.kind = "raised" ) ]_vars

C6_Witness ==
    /\ StreamDone
    /\ result.kind = "raised"
    /\ transport_log # << >>
    /\ LastAttempt.outcome = "Exception"
    /\ Len(LastAttempt.frames) = 2
    /\ Len(stdout) = 2

(* C7: when a streaming call returns, the returned text is the in-order concatenation
   of every fragment that went to the sink during the call. *)
C7_ReturnsWhatTheSinkGot ==
    (StreamDone /\ result.kind = "returned") => result.text = Flatten(stdout)

C7_Witness ==
    /\ StreamDone
    /\ result.kind = "returned"
    /\ Len(transport_log) = 2
    /\ Len(transport_log[1].frames) = 1
    /\ Len(stdout) = 2
    /\ result.text = << "a", "b" >>

\* The family's expected path is in the body (content[0].text, completion,
\* results[0].outputText, generation, outputs[0].text)
HasFirstItemField(body, key, field) ==
    /\ Has(body, key)
    /\ Len(body[key]) >= 1
    /\ Has(body[key][1], field)

HasExpectedPath(model_id, body) ==
    IF startswith(model_id, << "anthropic.", "claude-3" >>)
    THEN HasFirstItemField(body, "content", "text")
    ELSE IF startswith(model_id, << "anthropic." >>) THEN Has(body, "completion")
    ELSE IF startswith(model_id, << "amazon." >>)
    THEN HasFirstItemField(body, "results", "outputText")
    ELSE IF startswith(model_id, << "meta." >>) THEN Has(body, "generation")
    ELSE HasFirstItemField(body, "outputs", "text")

(* C8: when the body chat_command receives lacks the expected path of the model's
   family, the command fails with UnrecognizedShape and leaves the history as it
   was. *)
C8_MissingPathFails ==
    ( /\ mode = "chat"
      /\ pc = "done"
      /\ response_body # << >>
      /\ ~HasExpectedPath(model_config.model_id, response_body[1]) )
    => /\ result.kind = "raised"
       /\ result.error = "UnrecognizedShape"
       /\ chat_history = history0

\* The decoder's rules in their priority order
PriorityOrder == << "completion", "type", "outputText", "generation", "text", "outputs" >>

\* The position in PriorityOrder of the first field the chunk carries, 0 if none
RuleOf(chunk) ==
    IF \E i \in 1..Len(PriorityOrder) : Has(chunk, PriorityOrder[i])
    THEN CHOOSE i \in 1..Len(PriorityOrder) :
            /\ Has(chunk, PriorityOrder[i])
            /\ \A j \in 1..(i - 1) : ~Has(chunk, PriorityOrder[j])
    ELSE 0

\* What rule r alone prescribes for the chunk
Prescribed(chunk, r) ==
    CASE r = 0 -> << >>
      [] PriorityOrder[r] = "type" ->
            IF chunk["type"] = "content_block_delta"
            THEN << IF Has(chunk, "delta") /\ Has(chunk["delta"], "text")
                    THEN chunk["delta"]["text"] ELSE EmptyText >>
            ELSE IF chunk["type"] = "message_delta"
            THEN << chunk["delta"]["content"][1]["text"] >>
            ELSE << >>
      [] PriorityOrder[r] = "outputs" ->
            [i \in 1..Len(chunk["outputs"]) |->
                IF Has(chunk["outputs"][i], "text") THEN chunk["outputs"][i]["text"]
                ELSE EmptyText]
      [] OTHER -> << chunk[PriorityOrder[r]] >>

RECURSIVE PrescribedAll(_)
PrescribedAll(frames) ==
    IF frames = << >> THEN << >>
    ELSE Prescribed(Head(frames), RuleOf(Head(frames))) \o PrescribedAll(Tail(frames))

\* The frames consumed so far whose decoding did not raise
Decoded ==
    LET frames == LastAttempt.frames IN
    IF result.kind = "raised" THEN SubSeq(frames, 1, Len(frames) - 1) ELSE frames

(* C9: over any stream, what reaches the sink is, frame by frame, what the first rule
   present in the frame (in the order completion, type, outputText, generation, text,
   outputs) prescribes and nothing else; a frame whose type is neither
   content_block_delta nor message_delta yields nothing even beside lower fields. *)
C9_FirstMatchWins == stdout = PrescribedAll(Decoded)

C9_Witness ==
    /\ pc = "done"
    /\ result.kind = "returned"
    /\ Len(LastAttempt.frames) = 2
    /\ LastAttempt.frames[1] = Chunk({"outputText"}, [type |-> "message_start"])
    /\ LastAttempt.frames[2] = Chunk({"text", "outputs"}, EmptyDict)
    /\ stdout = << << "t" >> >>

Unmatched(chunk) == \A i \in 1..Len(PriorityOrder) : ~Has(chunk, PriorityOrder[i])

Matched(chunk) == ~Unmatched(chunk)

(* C10: a frame that matches no rule raises no error and yields nothing, and the
   frames after it are still consumed: every frame is counted, and the sink holds
   what the decoder yields over the stream with the unmatched frames left out. *)
C10_UnmatchedFrameSkipped ==
    /\ chunk_count = Len(LastAttempt.frames)
    /\ (result.kind = "raised" => Matched(LastAttempt.frames[Len(LastAttempt.frames)]))
    /\ stdout = decode(SelectSeq(LastAttempt.frames, Matched))

C10_Witness ==
    /\ pc = "done"
    /\ result.kind = "returned"
    /\ chunk_count = 2
    /\ LastAttempt.frames = << [heartbeat |-> TRUE], [generation |-> << "g" >>] >>
    /\ stdout = << << "g" >> >>

\* The fragments of the k-th decoded frame, and how many fragments the frames before
\* it gave
FragmentsOf(k) == Prescribed(Decoded[k], RuleOf(Decoded[k]))

FragmentsBefore(k) == Len(PrescribedAll(SubSeq(Decoded, 1, k - 1)))

(* C11: the decoder keeps the order: the j-th fragment of the k-th frame is in the
   sink right after all the fragments of the frames before it and the fragments
   1..j-1 of its own frame (an outputs frame gives one fragment per element, in array
   order), the sink holds nothing else, and the caller's concatenation is the texts
   of the frames joined in that order. *)
C11_OrderPreserved ==
    /\ Len(stdout) = FragmentsBefore(Len(Decoded) + 1)
    /\ \A k \in 1..Len(Decoded) :
          \A j \in 1..Len(FragmentsOf(k)) :
              stdout[FragmentsBefore(k) + j] = FragmentsOf(k)[j]
    /\ complete_response = Flatten(PrescribedAll(Decoded))

C11_Witness ==
    /\ pc = "done"
    /\ result.kind = "returned"
    /\ LastAttempt.frames = << [outputs |-> FieldValue("outputs")],
                               [completion |-> << "c" >>] >>
    /\ stdout = << << "x" >>, EmptyText, << "y" >>, << "c" >> >>
    /\ result.text = << "x", "y", "c" >>

\* The outcome the caller gets when the last permitted attempt was throttled: a
\* RuntimeError whose message carries the text of the ThrottlingException
RetryExhausted ==
    /\ result.kind = "raised"
    /\ result.error = "RuntimeError"
    /\ result.cause = "ThrottlingException"

(* C12: a streaming call whose last invocation was throttled has used up its attempts
   and ends with the retry-exhausted outcome; one whose last invocation failed in
   another way ends with an error that tells that failure and is never the
   retry-exhausted outcome. *)
C12_ExhaustionDistinguished ==
    (StreamDone /\ transport_log # << >>) =>
        /\ LastAttempt.outcome = "ThrottlingException"
              => /\ Len(transport_log) = stream_config.retry_attempts
                 /\ RetryExhausted
        /\ LastAttempt.outcome \in FatalOutcomes
              => /\ result.kind = "raised"
                 /\ result.cause = LastAttempt.outcome
                 /\ ~RetryExhausted

C12_Witness ==
    /\ StreamDone
    /\ Len(transport_log) = DefaultRetryAttempts
    /\ LastAttempt.outcome = "ThrottlingException"
    /\ Len(LastAttempt.frames) = 1
    /\ RetryExhausted

\* The errors that the arguments of the running call ask for: an unknown short name,
\* or for a known one max_tokens above the context window, a temperature outside
\* [0, 1], max_tokens below 1
ConfigViolations ==
    IF model_name \notin DOMAIN MODEL_REGISTRY THEN {"Unknown model"}
    ELSE {msg \in {"Max tokens exceeds model's context window",
                   "Temperature must be between 0 and 1",
                   "Max tokens must be positive"} :
            \/ /\ msg = "Max tokens exceeds model's context window"
               /\ max_tokens > MODEL_REGISTRY[model_name].context_window
            \/ /\ msg = "Temperature must be between 0 and 1"
               /\ (temperature < 0 \/ temperature > 10)
            \/ /\ msg = "Max tokens must be positive"
               /\ max_tokens < 1}

(* C13: a call of either command with an unknown short name, max_tokens above the
   model's context window or an out-of-range max_tokens or temperature has failed as
   soon as it has started, with a ValueError for one of the violated conditions, and
   has not invoked the transport, backed off, printed a fragment or a status message,
   or touched the history. *)
C13_ConfigFailuresStayLocal ==
    (mode # "none" /\ ConfigViolations # {}) =>
        /\ pc = "done"
        /\ result.kind = "raised"
        /\ result.error = "ValueError"
        /\ result.cause \in ConfigViolations
        /\ transport_log = << >>
        /\ sleeps = << >>
        /\ stdout = << >>
        /\ observer = << >>
        /\ chat_history = history0

C13_Witness ==
    /\ StreamDone
    /\ model_name = "claude-sonnet"
    /\ max_tokens = 250000
    /\ temperature = DefaultTemperature
    /\ history0.present
    /\ Len(history0.messages) = 2
    /\ result.cause = "Max tokens exceeds model's context window"
    /\ transport_log = << >>

(* C14: from_model_name with max_tokens above the context window of a catalog model
   raises the context-window error and makes no config, whatever the temperature;
   every config it returns for a catalog model has 1 <= max_tokens <= context_window;
   and with max_tokens at its default of 100 and a valid temperature it returns a
   config for every catalog model. *)
C14_ContextWindowEnforced ==
    (mode = "from_model_name" /\ model_name \in DOMAIN MODEL_REGISTRY) =>
        LET window == MODEL_REGISTRY[model_name].context_window IN
        /\ max_tokens > window
              => /\ result.kind = "raised"
                 /\ result.error = "ValueError"
                 /\ result.cause = "Max tokens exceeds model's context window"
                 /\ model_config = NoConfig
        /\ result.kind = "returned"
              => /\ 1 <= model_config.max_tokens
                 /\ model_config.max_tokens <= window
                 /\ model_config.max_tokens = max_tokens
        /\ (max_tokens = DefaultMaxTokens /\ temperature \in 0..10)
              => result.kind = "returned"

C14_Witness ==
    /\ mode = "from_model_name"
    /\ model_name = "claude-sonnet"
    /\ max_tokens = 250000
    /\ MODEL_REGISTRY[model_name].context_window = 200000
    /\ result.kind = "raised"
    /\ result.cause = "Max tokens exceeds model's context window"

\* The errors that the arguments of ModelConfig(...) ask for
RangeViolations ==
    {msg \in {"Temperature must be between 0 and 1", "Top-p must be between 0 and 1",
              "Top-k must be non-negative", "Max tokens must be positive"} :
        \/ msg = "Temperature must be between 0 and 1" /\ (temperature < 0 \/ temperature > 10)
        \/ msg = "Top-p must be between 0 and 1" /\ (top_p < 0 \/ top_p > 10)
        \/ msg = "Top-k must be non-negative" /\ top_k < 0
        \/ msg = "Max tokens must be positive" /\ max_tokens < 1}

(* C15: ModelConfig(...) with a temperature or top_p outside [0, 1], a top_k below 0
   or max_tokens below 1 raises a ValueError that names a violated parameter (the
   violated one when there is only one) and makes no instance; with the four in range,
   the ends 0 and 1 included, it returns an instance holding them. *)
C15_RangesValidated ==
    mode = "ModelConfig" =>
        IF RangeViolations # {}
        THEN /\ result.kind = "raised"
             /\ result.error = "ValueError"
             /\ result.cause \in RangeViolations
             /\ model_config = NoConfig
        ELSE /\ result.kind = "returned"
             /\ model_config.temperature = temperature
             /\ model_config.top_p = top_p
             /\ model_config.top_k = top_k
             /\ model_config.max_tokens = max_tokens

C15_Witness ==
    /\ mode = "ModelConfig"
    /\ temperature = 10
    /\ top_p = 0
    /\ top_k = 0
    /\ max_tokens = 1
    /\ result.kind = "returned"
    /\ model_config # NoConfig

(* C16: for a short name of the catalog the lookup gives its entry, and
   from_model_name with the default max_tokens and temperature returns a config whose
   model_id and api_version are the entry's; for any other name the lookup gives None
   and from_model_name raises the unknown-model error and makes no config. *)
C16_CatalogNamesResolve ==
    mode = "from_model_name" =>
        IF model_name \in DOMAIN MODEL_REGISTRY
        THEN /\ get_model_info(model_name) = MODEL_REGISTRY[model_name]
             /\ (max_tokens = DefaultMaxTokens /\ temperature = DefaultTemperature)
                   => /\ result.kind = "returned"
                      /\ model_config.model_id = MODEL_REGISTRY[model_name].model_id
                      /\ model_config.api_version = MODEL_REGISTRY[model_name].api_version
        ELSE /\ get_model_info(model_name) = NoModelInfo
             /\ result.kind = "raised"
             /\ result.error = "ValueError"
             /\ result.cause = "Unknown model"
             /\ model_config = NoConfig

C16_Witness ==
    /\ mode = "from_model_name"
    /\ model_name = "mistral-8x7b"
    /\ max_tokens = DefaultMaxTokens
    /\ temperature = DefaultTemperature
    /\ result.kind = "returned"
    /\ model_config.model_id = << "mistral.", "mixtral-8x7b-instruct-v0:1" >>

\* The last min(n, 10) messages of the history the call was given, in their order
RecentHistory ==
    LET n == Len(history0.messages)
        k == IF n < 10 THEN n ELSE 10
    IN [i \in 1..k |-> history0.messages[n - k + i]]

SystemPart ==
    IF system_prompt # EmptyText THEN << [role |-> "system", content |-> system_prompt] >>
    ELSE << >>

UserTurn == [role |-> "user", content |-> Prompt]

(* C17: format_prompt returns, for a history that has messages, the list made of the
   system message (if a system prompt is given), the recent history in its order and
   the new user turn last; for no history or an empty one with a system prompt, the
   list [system, user]; otherwise the prompt itself, a str. *)
C17_PromptResolution ==
    mode = "format_prompt" =>
        IF history0.present /\ Len(history0.messages) > 0
        THEN /\ formatted_prompt.kind = "list"
             /\ formatted_prompt.value = SystemPart \o RecentHistory \o << UserTurn >>
        ELSE IF system_prompt # EmptyText
        THEN /\ formatted_prompt.kind = "list"
             /\ Len(formatted_prompt.value) = 2
             /\ formatted_prompt.value[1] = [role |-> "system", content |-> system_prompt]
             /\ formatted_prompt.value[2] = UserTurn
        ELSE /\ formatted_prompt.kind = "str"
             /\ formatted_prompt.value = Prompt

C17_Witness ==
    /\ mode = "format_prompt"
    /\ Len(history0.messages) = 3
    /\ system_prompt = << "S" >>
    /\ formatted_prompt.kind = "list"
    /\ Len(formatted_prompt.value) = 5
    /\ formatted_prompt.value[1].role = "system"
    /\ formatted_prompt.value[2] = history0.messages[1]
    /\ formatted_prompt.value[5] = UserTurn

(* C18: the context in a resolved message list (the list without its system message
   and its user turn) is the last min(n, 10) of the n messages of the history, in
   their order, and the list never holds more than 12 messages. *)
C18_ContextBounded ==
    (mode = "format_prompt" /\ formatted_prompt.kind = "list") =>
        LET n == Len(history0.messages)
            k == IF n < 10 THEN n ELSE 10
            s == Len(SystemPart)
            list == formatted_prompt.value
        IN /\ Len(list) = s + k + 1
           /\ \A i \in 1..k : list[s + i] = history0.messages[n - k + i]
           /\ Len(list) <= 12

C18_Witness ==
    /\ mode = "format_prompt"
    /\ Len(history0.messages) = 12
    /\ system_prompt = << "S" >>
    /\ Len(formatted_prompt.value) = 12
    /\ formatted_prompt.value[2] = history0.messages[3]
    /\ formatted_prompt.value[11] = history0.messages[12]

\* The families an id belongs to by its prefix: A anthropic.claude-3, B any other
\* anthropic., C amazon., D meta., E mistral.
FamiliesOf(model_id) ==
    {f \in {"A", "B", "C", "D", "E"} :
        \/ f = "A" /\ startswith(model_id, << "anthropic.", "claude-3" >>)
        \/ f = "B" /\ startswith(model_id, << "anthropic." >>)
                   /\ ~startswith(model_id, << "anthropic.", "claude-3" >>)
        \/ f = "C" /\ startswith(model_id, << "amazon." >>)
        \/ f = "D" /\ startswith(model_id, << "meta." >>)
        \/ f = "E" /\ startswith(model_id, << "mistral." >>)}

\* The fields of a request body of each family
FamilyFields(f) ==
    CASE f = "A" -> {"messages", "anthropic_version", "max_tokens", "temperature", "top_k",
                     "top_p", "stop_sequences"}
      [] f = "B" -> {"prompt", "max_tokens", "temperature", "top_k", "top_p",
                     "stop_sequences"}
      [] f = "C" -> {"inputText", "textGenerationConfig"}
      [] f = "D" -> {"prompt", "max_gen_len", "temperature", "top_p"}
      [] OTHER -> {"prompt", "max_tokens", "temperature", "top_p", "stop"}

\* The families whose shape the request body has
ShapeFamilies(req) == {f \in {"A", "B", "C", "D", "E"} : DOMAIN req = FamilyFields(f)}

\* The text at the response path of a family, '' where the path is missing
PathText(f, resp) ==
    CASE f = "A" -> IF HasFirstItemField(resp, "content", "text")
                    THEN resp["content"][1]["text"] ELSE EmptyText
      [] f = "B" -> IF Has(resp, "completion") THEN resp["completion"] ELSE EmptyText
      [] f = "C" -> IF HasFirstItemField(resp, "results", "outputText")
                    THEN resp["results"][1]["outputText"] ELSE EmptyText
      [] f = "D" -> IF Has(resp, "generation") THEN resp["generation"] ELSE EmptyText
      [] OTHER -> IF HasFirstItemField(resp, "outputs", "text")
                  THEN resp["outputs"][1]["text"] ELSE EmptyText

(* C19: every catalog model id is in exactly one family, an anthropic.claude-3 id in
   family A; a call for a catalog model with valid arguments never fails as
   unsupported and builds a request body that has the shape of the family of the id
   and of no other; and the text chat_command returns is the one at the response path
   of that same family. *)
C19_FamilyConsistent ==
    /\ \A n \in DOMAIN MODEL_REGISTRY :
          /\ Cardinality(FamiliesOf(MODEL_REGISTRY[n].model_id)) = 1
          /\ startswith(MODEL_REGISTRY[n].model_id, << "anthropic.", "claude-3" >>)
                => FamiliesOf(MODEL_REGISTRY[n].model_id) = {"A"}
    /\ (mode # "none" /\ ConfigViolations = {}) =>
          /\ result.cause # "Unsupported model"
          /\ ShapeFamilies(request) = FamiliesOf(model_config.model_id)
          /\ (mode = "chat" /\ result.kind = "returned")
                => \A f \in ShapeFamilies(request) :
                      result.text = PathText(f, response_body[1])

C19_Witness ==
    /\ mode = "chat"
    /\ pc = "done"
    /\ model_name = "claude-haiku"
    /\ response_body = << AllPathsBody >>
    /\ ShapeFamilies(request) = {"A"}
    /\ result.kind = "returned"
    /\ result.text = << "A" >>

(* C20: the request body either command sends for a meta. model has exactly the
   fields prompt, max_gen_len, temperature and top_p (so no top_k and no stop
   sequences, which the config does hold), max_gen_len is the config's max_tokens and
   temperature and top_p are the config's, and prompt is the user prompt (after the
   system prompt and a blank line, if one is given) between one "[INST] " and one
   " [/INST]". *)
C20_LlamaRequestBody ==
    (transport_log # << >> /\ startswith(model_config.model_id, << "meta." >>)) =>
        /\ DOMAIN request = {"prompt", "max_gen_len", "temperature", "top_p"}
        /\ request.max_gen_len = model_config.max_tokens
        /\ request.max_gen_len = max_tokens
        /\ request.temperature = model_config.temperature
        /\ request.top_p = model_config.top_p
        /\ model_config.top_k = DefaultTopK
        /\ request.prompt =
              << "[INST] " >>
              \o (IF system_prompt # EmptyText THEN system_prompt \o << "\n\n" >> ELSE << >>)
              \o Prompt \o << " [/INST]" >>
        /\ Cardinality({i \in DOMAIN request.prompt : request.prompt[i] = "[INST] "}) = 1
        /\ Cardinality({i \in DOMAIN request.prompt : request.prompt[i] = " [/INST]"}) = 1

C20_Witness ==
    /\ mode = "stream"
    /\ model_name = "llama-70b"
    /\ system_prompt = << "S" >>
    /\ Len(history0.messages) = 2
    /\ Len(transport_log) = 2
    /\ request.prompt = << "[INST] ", "S", "\n\n", "P", " [/INST]" >>
    /\ request.max_gen_len = DefaultMaxTokens

\* The request body's stop field of each family that has one
StopField(req, f) ==
    CASE f \in {"A", "B"} -> IF Has(req, "stop_sequences") THEN << req["stop_sequences"] >>
                             ELSE << >>
      [] f = "C" -> IF Has(req, "textGenerationConfig")
                       /\ Has(req["textGenerationConfig"], "stopSequences")
                    THEN << req["textGenerationConfig"]["stopSequences"] >>
                    ELSE << >>
      [] f = "E" -> IF Has(req, "stop") THEN << req["stop"] >> ELSE << >>
      [] OTHER -> << >>

(* C21: to_request_body on a config whose stop_sequences was left at None (or is the
   empty list) gives a body whose stop field (stop_sequences for families A and B,
   textGenerationConfig.stopSequences for C, stop for E) is there and is the empty
   list, not None. *)
C21_EmptyStopList ==
    ( /\ mode = "to_request_body"
      /\ result.kind = "returned"
      /\ model_config.stop_sequences \in {NoneList, List(<< >>)} )
    => \A f \in FamiliesOf(model_config.model_id) \ {"D"} :
          /\ StopField(request, f) # << >>
          /\ ~StopField(request, f)[1].is_none
          /\ StopField(request, f)[1].items = << >>

C21_Witness ==
    /\ mode = "to_request_body"
    /\ result.kind = "returned"
    /\ model_config.model_id = << "anthropic.", "claude-v2" >>
    /\ model_config.stop_sequences = NoneList
    /\ request.stop_sequences = List(<< >>)

\* The messages the call resolves its prompt to, when it resolves it to a list
ResolvedMessages ==
    IF history0.present /\ Len(history0.messages) > 0
    THEN SystemPart \o RecentHistory \o << UserTurn >>
    ELSE SystemPart \o << UserTurn >>

Contents(messages) == [i \in 1..Len(messages) |-> messages[i].content]

\* The resolved prompt as one string: the contents joined by newlines, or the prompt
\* itself when there is neither a history nor a system prompt
FlatPrompt ==
    IF Len(ResolvedMessages) > 1 THEN Join(<< "\n" >>, Contents(ResolvedMessages))
    ELSE Prompt

(* C22: the request body either command sends for an amazon. model has exactly the
   fields inputText and textGenerationConfig, the latter with exactly maxTokenCount,
   temperature, topP and stopSequences taken from the config, and inputText is the
   resolved prompt of the call as one string, not the empty placeholder. *)
C22_TitanRequestBody ==
    (transport_log # << >> /\ startswith(model_config.model_id, << "amazon." >>)) =>
        /\ DOMAIN request = {"inputText", "textGenerationConfig"}
        /\ DOMAIN request.textGenerationConfig =
              {"maxTokenCount", "temperature", "topP", "stopSequences"}
        /\ request.textGenerationConfig.maxTokenCount = model_config.max_tokens
        /\ request.textGenerationConfig.temperature = model_config.temperature
        /\ request.textGenerationConfig.topP = model_config.top_p
        /\ request.inputText = FlatPrompt
        /\ request.inputText # EmptyText

C22_Witness ==
    /\ mode = "stream"
    /\ model_name = "titan-lite"
    /\ system_prompt = << "S" >>
    /\ Len(history0.messages) = 2
    /\ Len(transport_log) = 1
    /\ request.inputText = << "S", "\n", "h", "1", "\n", "h", "2", "\n", "P" >>
    /\ request.textGenerationConfig.maxTokenCount = DefaultMaxTokens

(* C23: to_request_body on the config that from_model_name builds with defaults for
   titan-express returns a dictionary that itself has the keys maxTokenCount,
   temperature, topP and stopSequences, with the values 100, 0.7, 1.0 and []. *)
C23_TitanTopLevelKeys ==
    ( /\ mode = "to_request_body"
      /\ model_name = "titan-express"
      /\ max_tokens = DefaultMaxTokens
      /\ temperature = DefaultTemperature )
    => /\ Has(request, "maxTokenCount")
       /\ Has(request, "temperature")
       /\ Has(request, "topP")
       /\ Has(request, "stopSequences")
       /\ request["maxTokenCount"] = 100
       /\ request["temperature"] = 7
       /\ request["topP"] = 10
       /\ request["stopSequences"] = List(<< >>)

\* part is in text as a run of consecutive characters
Contains(text, part) ==
    \E i \in 1..(Len(text) - Len(part) + 1) : SubSeq(text, i, i + Len(part) - 1) = part

\* The prompt string of a request body of a family that takes one
PromptText(req) ==
    IF Has(req, "inputText") THEN req["inputText"]
    ELSE IF Has(req, "prompt") THEN req["prompt"]
    ELSE EmptyText

(* C30: when the call has a history with messages and the model takes a flat prompt
   (anthropic. other than claude-3, amazon., meta., mistral.), the prompt string of the
   request sent holds the contents of the recent history and then the new prompt, in
   order, one per line. *)
C30_FlatPromptKeepsHistory ==
    ( /\ transport_log # << >>
      /\ history0.present
      /\ Len(history0.messages) > 0
      /\ FamiliesOf(model_config.model_id) \subseteq {"B", "C", "D", "E"} )
    => Contains(PromptText(request),
                Join(<< "\n" >>, Contents(RecentHistory \o << UserTurn >>)))

\* The arguments of the last StreamConfig(...) call, defaults filled in
StreamArg(f, default) ==
    LET kwargs == calls[Len(calls)].kwargs IN
    IF f \in DOMAIN kwargs THEN kwargs[f] ELSE default

(* C24: StreamConfig(...) raises a ValueError and makes no instance when max_delay <
   base_delay, base_delay <= 0, retry_attempts < 0, chunk_size < 1 or
   throttle_cooldown < 0, and only then; so an instance has 0 < base_delay <=
   max_delay and retry_attempts >= 0; and StreamConfig() has retry_attempts 5,
   base_delay 2.0 and max_delay 30.0. *)
C24_StreamConfigValidated ==
    mode = "StreamConfig" =>
        LET invalid == \/ StreamArg("max_delay", 30) < StreamArg("base_delay", 2)
                       \/ StreamArg("base_delay", 2) <= 0
                       \/ StreamArg("retry_attempts", 5) < 0
                       \/ StreamArg("chunk_size", 1024) < 1
                       \/ StreamArg("throttle_cooldown", 10) < 0
        IN /\ invalid <=> (result.kind = "raised" /\ result.error = "ValueError")
           /\ invalid <=> stream_config = NoStreamConfig
           /\ ~invalid
                 => /\ 0 < stream_config.base_delay
                    /\ stream_config.base_delay <= stream_config.max_delay
                    /\ stream_config.retry_attempts >= 0
                    /\ stream_config.base_delay = StreamArg("base_delay", 2)
                    /\ stream_config.max_delay = StreamArg("max_delay", 30)
                    /\ stream_config.retry_attempts = StreamArg("retry_attempts", 5)

C24_Witness ==
    /\ mode = "StreamConfig"
    /\ calls = << [op |-> "StreamConfig", kwargs |-> [base_delay |-> 31]] >>
    /\ result.kind = "raised"
    /\ result.cause = "Max delay must be greater than base delay"
    /\ stream_config = NoStreamConfig

(* C29: for attempt numbers 0, 1, 2, ... and any StreamConfig that exists, the delay
   before the jitter is min(base_delay * 2^attempt, max_delay), so at least
   base_delay, at most max_delay and never smaller than for the attempt before; the
   delay slept is that delay times a factor in [0.5, 1.5), so it is in
   [0.5 * base_delay, 1.5 * max_delay).  Slept delays are in hundredths of a second. *)
C29_BackoffDelayBounds ==
    mode = "handle_rate_limit" =>
        \A i \in 1..Len(sleeps) :
            LET a == i - 1
                base == stream_config.base_delay
                cap == stream_config.max_delay
                exact == IF base * 2^a <= cap THEN base * 2^a ELSE cap
            IN /\ sleeps[i].attempt = a
               /\ sleeps[i].base = exact
               /\ base <= sleeps[i].base
               /\ sleeps[i].base <= cap
               /\ i > 1 => sleeps[i - 1].base <= sleeps[i].base
               /\ 50 * sleeps[i].base <= sleeps[i].delay
               /\ sleeps[i].delay < 150 * sleeps[i].base
               /\ 50 * base <= sleeps[i].delay
               /\ sleeps[i].delay < 150 * cap

C29_Witness ==
    /\ mode = "handle_rate_limit"
    /\ stream_config = StreamConfig
    /\ Len(sleeps) = 5
    /\ sleeps[4].base = 16
    /\ sleeps[5].base = 30
    /\ sleeps[5].delay = 30 * 149

IsNotification(m) == m.kind = "rate_limited"

\* The backoff notifications the observer got, in order
Notifications == SelectSeq(observer, IsNotification)

(* C27: in a streaming call there is one backoff between two consecutive transport
   invocations and no other: before the k-th invocation, and while or after it runs,
   there were k - 1 notifications and k - 1 sleeps, and none where no invocation was
   made; the i-th notification carries the attempt number and the delay (to a
   tenth of a second) of the i-th sleep. *)
C27_OneBackoffBetweenInvocations ==
    mode = "stream" =>
        /\ Len(Notifications) = Len(sleeps)
        /\ pc = "invoke" => Len(sleeps) = Len(transport_log)
        /\ (pc \in {"drain", "done"} /\ transport_log # << >>)
              => Len(sleeps) = Len(transport_log) - 1
        /\ transport_log = << >> => sleeps = << >>
        /\ \A i \in 1..Len(sleeps) :
              /\ Notifications[i].retry = sleeps[i].attempt
              /\ sleeps[i].attempt = i
              /\ 10 * Notifications[i].delay - 5 <= sleeps[i].delay
              /\ sleeps[i].delay < 10 * Notifications[i].delay + 5
              /\ transport_log[i].outcome = "ThrottlingException"

C27_Witness ==
    /\ StreamDone
    /\ Len(transport_log) = 3
    /\ Len(sleeps) = 2
    /\ result.kind = "returned"
    /\ sleeps[2].delay = 8 * 149

(* C25: no lookup, from_model_name, to_request_body, chat_command or
   stream_chat_command, whether it returns or raises, changes MODEL_REGISTRY: it is
   the table it was at import in every state, and any two lookups of one name in a run
   return the same ModelInfo (or both None), whatever ran between them. *)
C25_CatalogImmutable ==
    /\ registry = MODEL_REGISTRY
    /\ \A i, j \in 1..Len(calls) :
          (/\ calls[i].op = "get_model_info"
           /\ calls[j].op = "get_model_info"
           /\ calls[i].name = calls[j].name)
              => calls[i].info = calls[j].info

C25_Witness ==
    /\ Len(calls) = 2
    /\ calls[1].op = "get_model_info" /\ calls[1].name = "claude-sonnet"
    /\ calls[2].op = "get_model_info" /\ calls[2].name = "claude-sonnet"
    /\ calls[1].after = "idle"
    /\ calls[2].after = "done"
    /\ calls[2].info # NoModelInfo
    /\ mode = "stream"
    /\ model_name = "claude-sonnet"
    /\ result.kind = "raised"
    /\ Len(transport_log) = 5

(* C26: two from_model_name calls with the same model name, max_tokens and
   temperature both raise the same error or both return equal configs, whatever
   lookups, other from_model_name calls, to_request_body calls or commands ran
   between them. *)
C26_BuildConfigIdempotent ==
    \A i, j \in 1..Len(calls) :
        (/\ calls[i].op = "from_model_name"
         /\ calls[j].op = "from_model_name"
         /\ calls[i].name = calls[j].name
         /\ calls[i].tokens = calls[j].tokens
         /\ calls[i].temp = calls[j].temp)
            => /\ calls[i].built.ok = calls[j].built.ok
               /\ calls[i].built.error = calls[j].built.error
               /\ calls[i].built.msg = calls[j].built.msg
               /\ calls[i].built.config = calls[j].built.config

C26_Witness ==
    /\ Len(calls) = 2
    /\ calls[1].op = "from_model_name" /\ calls[2].op = "from_model_name"
    /\ calls[1].name = "claude-sonnet" /\ calls[2].name = "claude-sonnet"
    /\ calls[1].tokens = 100 /\ calls[2].tokens = 100
    /\ calls[1].after = "idle"
    /\ calls[2].after = "done"
    /\ calls[1].built.ok
    /\ calls[2].built.config.temperature = DefaultTemperature
    /\ mode = "chat"
    /\ model_name = "claude-sonnet"
    /\ temperature = 15
    /\ result.kind = "raised"

\* The call ended as one of: a text returned after an attempt that ended well; every
\* attempt allowed was made and the last was throttled; an error that is not retried
TerminalOutcome ==
    \/ /\ result.kind = "returned"
       /\ transport_log # << >>
       /\ LastAttempt.outcome = "ok"
       /\ result.text = complete_response
    \/ /\ result.kind = "raised"
       /\ transport_log # << >>
       /\ LastAttempt.outcome = "ThrottlingException"
       /\ Len(transport_log) = stream_config.retry_attempts
    \/ /\ result.kind = "raised"
       /\ transport_log # << >>
       /\ LastAttempt.outcome \in FatalOutcomes \cup {"IndexError"}
    \/ /\ result.kind = "raised"
       /\ transport_log = << >>
       /\ result.error = "ValueError"

(* C28: a streaming call over a transport whose calls return and whose streams end
   reaches a terminal outcome: a text returned, every attempt throttled, or an error
   that is not retried; it makes at most retry_attempts transport invocations; and
   once it has ended there is no further invocation, backoff, notification or text
   written. *)
C28_StreamingCallTerminates ==
    /\ [](mode = "stream" => /\ Len(transport_log) <= DefaultRetryAttempts
                             /\ pc = "done" => TerminalOutcome)
    /\ [][pc = "done" => /\ pc' = "done"
                         /\ UNCHANGED << transport_log, sleeps, observer, stdout, result >>]_vars
    /\ (mode = "stream" ~> pc = "done")

C28_Witness ==
    /\ StreamDone
    /\ Len(transport_log) = DefaultRetryAttempts
    /\ LastAttempt.outcome = "ThrottlingException"
    /\ Len(sleeps) = DefaultRetryAttempts - 1
    /\ result.kind = "raised"
    /\ stdout # << >>

(* C31: get_context(max_messages=n) returns, for every n >= 0 and every history, at
   most n messages: the last min(n, len) messages of the history, in their order. *)
C31_ContextAtMostN ==
    mode = "get_context" =>
        LET n == calls[1].max_messages
            context == calls[1].context
            len == Len(history0.messages)
            k == IF n < len THEN n ELSE len
        IN /\ Len(context) <= n
           /\ Len(context) = k
           /\ \A i \in 1..k : context[i] = history0.messages[len - k + i]

IsProgress(m) == m.kind = "processed"

\* The progress messages the observer got, in order
ProgressMessages == SelectSeq(observer, IsProgress)

\* The events of the stream taken and decoded to the end of the loop body: all those
\* counted, but for one whose decoding raised
EventsDecoded == IF LastAttempt.outcome = "IndexError" THEN chunk_count - 1 ELSE chunk_count

(* C32: while a stream is decoded the observer gets a progress message each time the
   number of events consumed reaches a multiple of 5, events that match no rule
   counted too: after n events it has got floor(n / 5) of them, the i-th telling
   5 * i.  (An event whose decoding raises ends the stream before its message.) *)
C32_ProgressEveryFive ==
    /\ chunk_count = Len(LastAttempt.frames)
    /\ Len(ProgressMessages) = EventsDecoded \div 5
    /\ \A i \in 1..Len(ProgressMessages) : ProgressMessages[i].chunks = 5 * i

C32_Witness ==
    /\ pc = "drain"
    /\ chunk_count = 10
    /\ Len(ProgressMessages) = 2
    /\ \E i \in 1..5 : LastAttempt.frames[i] = [heartbeat |-> TRUE]
    /\ Len(stdout) = 3

RECURSIVE FrameTexts(_)
\* The texts the decoder yields for a sequence of events
FrameTexts(frames) ==
    IF frames = << >> THEN << >>
    ELSE chunk_texts(Head(frames)) \o FrameTexts(Tail(frames))

RECURSIVE LogTexts(_)
\* The texts the decoder yields for all the events of all the attempts of a call
LogTexts(log) ==
    IF log = << >> THEN << >>
    ELSE FrameTexts(Head(log).frames) \o LogTexts(Tail(log))

\* The attempts of a call that were throttled and followed by a backoff
Throttled(c) ==
    {i \in 1..Len(c.transport_log) :
        /\ c.transport_log[i].outcome = "ThrottlingException"
        /\ i < DefaultRetryAttempts}

\* The outcome of the last attempt of a call, "none" before the first
LastOutcome(c) ==
    IF c.transport_log = << >> THEN "none"
    ELSE c.transport_log[Len(c.transport_log)].outcome

\* The two calls: the one that runs and the one that is parked
BothCalls == << local_state, parked >>

\* A call's retry state, text, result and history are what its own arguments and its
\* own transport outcomes and events make them
OwnOutcome(c) ==
    /\ c.attempt = Cardinality(Throttled(c))
    /\ Len(c.sleeps) = c.attempt
    /\ \A i \in 1..Len(c.sleeps) :
          /\ c.sleeps[i].attempt = i
          /\ c.sleeps[i].base = Min(DefaultBaseDelay * 2^i, DefaultMaxDelay)
          /\ c.transport_log[i].outcome = "ThrottlingException"
    /\ c.complete_response = Flatten(LogTexts(c.transport_log))
    /\ c.stdout = LogTexts(c.transport_log)
    /\ IF c.pc = "done" /\ LastOutcome(c) = "ok"
       THEN /\ c.result = Returned(c.complete_response)
            /\ c.chat_history.messages =
                  c.history0.messages \o << Message("assistant", c.complete_response) >>
       ELSE /\ c.chat_history = c.history0
            /\ c.result.kind \in {"pending", "raised"}
            /\ (c.pc = "done" /\ c.transport_log # << >>)
                  => c.result = Raised(raised_as(LastOutcome(c)), LastOutcome(c))

(* C33: the observer is advisory.  Of two streaming calls with the same arguments, one
   with a print_fn and one with print_fn=None, that have both ended and whose transport
   answered alike (the invocations of one are the first invocations of the other, with
   the same outcomes and events): both made the same invocations, wrote the same
   fragments to the sink, returned the same text or raised the same error, and left
   equal histories; the one without print_fn notified nobody. *)
C33_ObserverAdvisory ==
    (/\ pc = "done" /\ parked.pc = "done"
     /\ print_fn # parked.print_fn
     /\ model_name = parked.model_name
     /\ max_tokens = parked.max_tokens
     /\ temperature = parked.temperature
     /\ history0 = parked.history0
     /\ \/ IsPrefix(transport_log, parked.transport_log)
        \/ IsPrefix(parked.transport_log, transport_log))
        => /\ transport_log = parked.transport_log
           /\ stdout = parked.stdout
           /\ result = parked.result
           /\ chat_history = parked.chat_history
           /\ \A c \in {local_state, parked} : ~c.print_fn => c.observer = << >>

C33_Witness ==
    /\ pc = "done" /\ parked.pc = "done"
    /\ print_fn /\ ~parked.print_fn
    /\ model_name = "claude-sonnet" /\ parked.model_name = "claude-sonnet"
    /\ Len(transport_log) = 2
    /\ transport_log = parked.transport_log
    /\ transport_log[1].outcome = "ThrottlingException"
    /\ Len(transport_log[1].frames) = 1
    /\ result.kind = "returned"
    /\ result = parked.result
    /\ Len(observer) >= 3
    /\ parked.observer = << >>
    /\ Len(parked.sleeps) = 1

(* C35: two streaming calls that run interleaved, each with its own history, do not
   interfere: in every state the attempt counter, the backoff delays (before the
   jitter), the accumulator, the fragments written and the result of each call are
   those its own transport outcomes and events give, and each history holds, after
   what it held before, only the message of its own call. *)
C35_CallsDoNotInterfere ==
    \A k \in 1..2 : BothCalls[k].mode = "stream" => OwnOutcome(BothCalls[k])

C35_Witness ==
    /\ pc = "done" /\ parked.pc = "done"
    /\ result.kind = "returned" /\ parked.result.kind = "returned"
    /\ result.text = << "a" >>
    /\ parked.result.text = EmptyText
    /\ Len(parked.sleeps) = 1
    /\ sleeps = << >>
    /\ chat_history.messages = << Message("assistant", << "a" >>) >>
    /\ parked.chat_history.messages = << Message("assistant", EmptyText) >>

RECURSIVE SinkTexts(_)
\* The texts decoded from the events consumed so far, over all attempts, in order
SinkTexts(log) ==
    IF log = << >> THEN << >>
    ELSE decode(Head(log).frames) \o SinkTexts(Tail(log))

(* C34: fragments are forwarded as produced.  In every state of a streaming call,
   whether the attempt is still being read, has ended, or is about to be retried, the
   sink holds the fragments of every event consumed so far and the accumulator their
   concatenation: the fragments of an event are written before the next event is
   taken, nothing waits for the end of the stream or for the attempt's outcome. *)
C34_ForwardedAsProduced ==
    mode = "stream" =>
        /\ stdout = SinkTexts(transport_log)
        /\ complete_response = Flatten(stdout)

C34_Witness ==
    /\ mode = "stream"
    /\ pc = "drain"
    /\ Len(transport_log) = 2
    /\ transport_log[1].outcome = "ThrottlingException"
    /\ Len(transport_log[1].frames) = 1
    /\ LastAttempt.outcome = "streaming"
    /\ Len(LastAttempt.frames) = 1
    /\ Len(stdout) = 2
    /\ complete_response = << "a", "b" >>

(* C36: resolving the prompt leaves the caller's history alone.  After format_prompt,
   and in a chat_command or stream_chat_command up to its commit (every state but the
   one after a successful return), the history holds the messages it held before the
   call, in their order; after the commit it holds those and one assistant message.
   The system message and the user turn are in the list built for the request and
   never in the history. *)
C36_HistoryNotModifiedByPrompt ==
    mode \in {"chat", "stream", "format_prompt"} =>
        /\ (pc # "done" \/ result.kind # "returned" \/ mode = "format_prompt")
              => chat_history = history0
        /\ IsPrefix(history0.messages, chat_history.messages)
        /\ Len(chat_history.messages) <= Len(history0.messages) + 1
        /\ \A i \in 1..Len(chat_history.messages) :
              i > Len(history0.messages) => chat_history.messages[i].role = "assistant"
        /\ formatted_prompt.kind = "list"
              => /\ formatted_prompt.value[Len(formatted_prompt.value)] = Message("user", Prompt)
                 /\ system_prompt # EmptyText
                       => formatted_prompt.value[1] = Message("system", system_prompt)

C36_Witness ==
    /\ mode = "chat"
    /\ pc = "chat_invoke"
    /\ system_prompt = << "S" >>
    /\ Len(history0.messages) = 2
    /\ chat_history = history0
    /\ Len(formatted_prompt.value) = 4
    /\ formatted_prompt.value[1].role = "system"
    /\ formatted_prompt.value[4] = Message("user", Prompt)

(* C37: chat_command without streaming invokes the transport at most once per call.  A
   throttled invocation is not retried and nothing is slept or notified: the call
   raises at once, whatever the invocation raised, and the history is what it was. *)
C37_ChatInvokesOnce ==
    mode = "chat" =>
        /\ Len(transport_log) <= 1
        /\ sleeps = << >>
        /\ Notifications = << >>
        /\ attempt = 0
        /\ (transport_log # << >> /\ LastAttempt.outcome \in Exceptions)
              => /\ pc = "done"
                 /\ result.kind = "raised"
                 /\ result.cause = LastAttempt.outcome
                 /\ chat_history = history0
        /\ (pc = "done" /\ transport_log = << >>) => result.kind = "raised"

C37_Witness ==
    /\ mode = "chat"
    /\ pc = "done"
    /\ Len(transport_log) = 1
    /\ LastAttempt.outcome = "ThrottlingException"
    /\ result.kind = "raised"
    /\ result.error = "RuntimeError"
    /\ Len(history0.messages) = 2
    /\ chat_history = history0

(* C38: from_model_name reports failures in a fixed order.  An unknown name raises
   'Unknown model' whatever the keyword arguments are; for a known model, max_tokens
   above the context window raises the context-window error even when temperature,
   top_p or top_k is out of range too; a range error is raised only for a known model
   with max_tokens within the window; with nothing wrong an instance is returned. *)
C38_FailurePrecedence ==
    mode = "from_model_name_kwargs" =>
        /\ result.kind = "raised" <=> model_config = NoConfig
        /\ result.kind = "raised" => result.error = "ValueError"
        /\ IF model_name \notin DOMAIN MODEL_REGISTRY
           THEN result.cause = "Unknown model"
           ELSE IF max_tokens > MODEL_REGISTRY[model_name].context_window
           THEN result.cause = "Max tokens exceeds model's context window"
           ELSE IF RangeViolations # {}
           THEN result.cause \in RangeViolations
           ELSE result.kind = "returned"

C38_Witness ==
    /\ mode = "from_model_name_kwargs"
    /\ calls = << [op |-> "from_model_name", name |-> "claude-sonnet",
                   kwargs |-> [max_tokens |-> 200001, temperature |-> 11, top_k |-> -1]] >>
    /\ result.kind = "raised"
    /\ result.cause = "Max tokens exceeds model's context window"
    /\ RangeViolations = {"Temperature must be between 0 and 1", "Top-k must be non-negative"}

====
